---- MODULE Spec2Model ----
(***************************************************************************)
(* Org Social Relay: the feed scan (app/feeds/tasks.py scan_feeds), the    *)
(* redirect handler (app/feeds/parser.py _handle_feed_redirect), the       *)
(* notification publisher and the cached replies view.                     *)
(*                                                                         *)
(* The relational store is modelled on its natural keys, which the schema  *)
(* declares unique: a Profile is identified by its feed URL, a Post by     *)
(* (profile, post_id), a Mention by (post, mentioned_profile), a PollVote  *)
(* by (post, poll_post), a Follow by (follower, followed).  Changing the   *)
(* key of a row rewrites the foreign keys that point at it, which is what  *)
(* the integer primary keys of the ORM give for free.  PollOption rows     *)
(* are kept as the ordered list poll_options of their post.                *)
(*                                                                         *)
(* A string that the code splits on "#" is modelled by the tuple of its    *)
(* parts: "" is << >>, "fb" is <<"fb">>, "fb#t1" is <<"fb","t1">>.         *)
(***************************************************************************)
EXTENDS Integers, Sequences, FiniteSets, Bags, TLC

VARIABLES
  db,        \* the committed relational store
  remote,    \* remote[u]: the document currently served at URL u
  phase,     \* "idle" | "scanning": position of scan_feeds
  queue,     \* feeds of the running cycle that are still to be processed
  cycles,    \* number of cycles started
  edits,     \* number of edits made to remote documents
  last,      \* what the most recent per-feed step of the running cycle did
  clean,     \* clean[u]: store and remote[u] unchanged since u's last sync
  mentionPub, \* bag of <<post feed, post id, target>>: the mention events
              \* handed to the publisher since the post last entered its feed
  cache,     \* the response cache of the replies view, by request key
  served,    \* <<key, response>> pairs answered during the running cycle
  snap,      \* the store as it was when the running cycle started
  rec,       \* the redirect handler: position, arguments, open transaction
  web,       \* the global ETag, the end of the cycle, a request in flight
  runs,      \* runs[w]: the execution of scan_feeds on consumer worker w
  bus,       \* the Redis channels: subscriptions, buffers, deliveries
  now,       \* the clock, in days
  parse,     \* a post as its author wrote it, and what the parser made of it
  postPub    \* bag of <<post feed, post id, type>>: the reply, reaction and
             \* boost events handed to the publisher since the start

vars == <<db, remote, phase, queue, cycles, edits, last, clean, mentionPub,
          cache, served, snap, rec, web, runs, bus, now, parse, postPub>>

----------------------------------------------------------------------------
(* Bounds *)

MaxEdits == 2
MaxCycles == 2
MaxReconciles == 2

----------------------------------------------------------------------------
(* Universe of inputs *)

FA == "fa"
FB == "fb"
FC == "fc"
URLs == {FA, FB, FC}

\* the post ids under which the author of an edited feed publishes
PostIds == {"t1", "t2"}

NoRef == << >>
Ref(u, i) == <<u, i>>

\* parsed metadata: title stands for title/nick/description/avatar
Metas ==
  { [title |-> "n1", links |-> << >>],
    [title |-> "n2", links |-> <<"l1">>] }

Body(c, r, m, inc, pe, po, pos, ms) ==
  [content |-> c, reply_to |-> r, mood |-> m, include |-> inc,
   poll_end |-> pe, poll_option |-> po, poll_options |-> pos, mentions |-> ms]

Ment(u, n) == [url |-> u, nickname |-> n]

\* the post bodies an author may publish under a post id
Bodies ==
  { Body("c1", NoRef, "", NoRef, "", "", << >>, << >>),
    Body("c1", Ref(FB, "t1"), "", NoRef, "", "", << >>, << >>),
    Body("", Ref(FB, "t1"), "m", NoRef, "", "", << >>, << >>),
    Body("c1", Ref(FB, "t1"), "", Ref(FB, "t1"), "", "", << >>, << >>),
    Body("c1", <<FB>>, "", <<FB, "t1", "x">>, "", "", << >>, << >>),
    Body("", Ref(FB, "t1"), "", NoRef, "", "o1", << >>, << >>),
    Body("", Ref(FA, "t2"), "", NoRef, "", "o1", << >>, << >>),
    Body("c1", NoRef, "", NoRef, "", "", << >>, <<Ment(<<FB>>, "a")>>),
    Body("c2", NoRef, "", NoRef, "", "", << >>,
         <<Ment(<<FB>>, "b"), Ment(<<FB, "t1">>, "a")>>) }

\* the document of the feed that is not edited: a poll and nothing else
PollBody == Body("c1", NoRef, "", NoRef, "e1", "", <<"o1", "o2">>, << >>)

WithId(i, b) == [id |-> i] @@ b

EmptyDoc == [metadata |-> [title |-> "n1", links |-> << >>], posts |-> << >>]
PollDoc == [metadata |-> [title |-> "n1", links |-> << >>],
            posts |-> <<WithId("t1", PollBody)>>]

----------------------------------------------------------------------------
(* The store *)

FeedRow(u) == [url |-> u, last_fetch |-> 0]

RECURSIVE FeedRows(_)
FeedRows(us) ==
  IF us = << >> THEN << >> ELSE <<FeedRow(Head(us))>> \o FeedRows(Tail(us))

EmptyDb(us) ==
  [feeds |-> FeedRows(us), profiles |-> {}, posts |-> {}, created |-> << >>,
   mentions |-> {}, votes |-> {}, follows |-> {}]

HasProfile(d, u) == \E p \in d.profiles : p.feed = u
ProfileOf(d, u) == CHOOSE p \in d.profiles : p.feed = u

PostKey(p) == <<p.profile, p.post_id>>
HasPost(d, u, i) == \E p \in d.posts : PostKey(p) = <<u, i>>
PostOf(d, u, i) == CHOOSE p \in d.posts : PostKey(p) = <<u, i>>
PostIdsOf(d, u) == {p.post_id : p \in {q \in d.posts : q.profile = u}}

\* d.created lists the post keys by created_at (auto_now_add), oldest first

\* QuerySet.delete() on posts: on_delete=CASCADE removes the poll options
\* (part of the row here), the mentions made in the post and the poll votes
\* that the post casts or receives
DeletePosts(d, keys) ==
  [d EXCEPT !.posts = {p \in @ : PostKey(p) \notin keys},
            !.created = SelectSeq(@, LAMBDA k : k \notin keys),
            !.mentions = {m \in @ : m.post \notin keys},
            !.votes = {v \in @ : v.post \notin keys /\ v.poll_post \notin keys}]

\* Feed.objects.filter(url=u).update(last_successful_fetch=t): every Feed
\* row with that url is stamped; last_fetch = 0 stands for NULL
StampAt(d, u, t) ==
  [d EXCEPT !.feeds =
     [k \in 1..Len(@) |-> IF @[k].url = u THEN [@[k] EXCEPT !.last_fetch = t]
                          ELSE @[k]]]

\* _update_feed_last_successful_fetch while the clock stands at 1
StampFetch(d, u) == StampAt(d, u, 1)

----------------------------------------------------------------------------
(* notification_publisher.publish_notification *)

Event(t, target, post, emoji, parent, boosted) ==
  [type |-> t, target |-> target, post |-> post, emoji |-> emoji,
   parent |-> parent, boosted |-> boosted]

\* what reaches the channel for one call: nothing when Redis is unreachable
PublishNotification(up, ev) == IF up THEN <<ev>> ELSE << >>

----------------------------------------------------------------------------
(* scan_feeds: the body of the per-feed loop *)

\* the progress of one per-feed step
\*   calls: publish_notification invocations, sent: events that reached Redis
\*   wrote: kinds of row writes issued, aborted: an exception left the body
StepState(d) ==
  [db |-> d, calls |-> << >>, sent |-> << >>, created |-> {}, updated |-> {},
   wrote |-> {}, newMentions |-> {}, aborted |-> FALSE]

\* Publish whose failure leaves the try body as an exception
PublishMut(st, up, ev) ==
  IF up
  THEN [st EXCEPT !.calls = Append(@, ev),
                  !.sent = @ \o PublishNotification(up, ev)]
  ELSE [st EXCEPT !.calls = Append(@, ev), !.aborted = TRUE]

\* one publish_notification call of the try body; its result is not used
Publish(st, up, ev) ==
  [st EXCEPT !.calls = Append(@, ev), !.sent = @ \o PublishNotification(up, ev)]

\* md5 of f"{metadata}{posts_data}", taken to be collision free
ContentHash(doc) == <<doc.metadata, doc.posts>>

\* UpsertProfile without the version gate: every sync saves the profile row
UpsertProfileMut(st, u, doc) ==
  LET d == st.db
      h == ContentHash(doc)
      fresh == [feed |-> u, title |-> doc.metadata.title, version |-> h,
                links |-> doc.metadata.links]
      old == IF HasProfile(d, u) THEN ProfileOf(d, u) ELSE fresh
      row == [old EXCEPT !.title = doc.metadata.title, !.version = h,
                         !.links = doc.metadata.links]
  IN [st EXCEPT !.db.profiles = (@ \ {old}) \cup {row},
                !.wrote = @ \cup {IF HasProfile(d, u) THEN "profile.save"
                                  ELSE "profile.create"}]

\* Profile.objects.get_or_create(feed=feed.url, defaults=...) and the
\* version-gated update, then the wholesale replacement of the links
UpsertProfile(st, u, doc) ==
  LET d == st.db
      h == ContentHash(doc)
      fresh == [feed |-> u, title |-> doc.metadata.title, version |-> h,
                links |-> << >>]
      old == IF HasProfile(d, u) THEN ProfileOf(d, u) ELSE fresh
      changed == HasProfile(d, u) /\ old.version # h
      row1 == IF changed
              THEN [old EXCEPT !.title = doc.metadata.title, !.version = h]
              ELSE old
      row2 == [row1 EXCEPT !.links = doc.metadata.links]
      w == (IF ~HasProfile(d, u) THEN {"profile.create"} ELSE {})
           \cup (IF changed THEN {"profile.save"} ELSE {})
           \cup (IF old.links # << >> THEN {"links.delete"} ELSE {})
           \cup (IF doc.metadata.links # << >> THEN {"links.create"} ELSE {})
  IN [st EXCEPT !.db.profiles = (@ \ {old}) \cup {row2},
                !.wrote = @ \cup w]

\* PostNotifications with the boost test chained as an elif of the reply test
PostNotificationsMut(u, post) ==
  LET url == <<u, post.post_id>>
  IN IF post.reply_to # NoRef /\ Len(post.reply_to) = 2
     THEN IF post.mood # ""
          THEN <<Event("reaction", post.reply_to[1], url, post.mood,
                       post.reply_to, NoRef)>>
          ELSE <<Event("reply", post.reply_to[1], url, "",
                       post.reply_to, NoRef)>>
     ELSE IF post.include # NoRef /\ Len(post.include) = 2
          THEN <<Event("boost", post.include[1], url, "", NoRef,
                       post.include)>>
          ELSE << >>

\* the notifications for a post that get_or_create has just created
PostNotifications(u, post) ==
  LET url == <<u, post.post_id>>
      replyPart ==
        IF post.reply_to # NoRef /\ Len(post.reply_to) = 2
        THEN IF post.mood # ""
             THEN <<Event("reaction", post.reply_to[1], url, post.mood,
                          post.reply_to, NoRef)>>
             ELSE <<Event("reply", post.reply_to[1], url, "",
                          post.reply_to, NoRef)>>
        ELSE << >>
      boostPart ==
        IF post.include # NoRef /\ Len(post.include) = 2
        THEN <<Event("boost", post.include[1], url, "", NoRef, post.include)>>
        ELSE << >>
  IN replyPart \o boostPart

RECURSIVE PublishAll(_, _, _)
PublishAll(st, up, evs) ==
  IF evs = << >> THEN st
  ELSE PublishAll(Publish(st, up, Head(evs)), up, Tail(evs))

\* UpsertPost that publishes on the update branch as well
UpsertPostMut(st, u, pd, up) ==
  LET d == st.db
      exists == HasPost(d, u, pd.id)
      fresh == [profile |-> u, post_id |-> pd.id, content |-> pd.content,
                reply_to |-> pd.reply_to, mood |-> pd.mood,
                include |-> pd.include, poll_end |-> "",
                poll_options |-> << >>]
      old == IF exists THEN PostOf(d, u, pd.id) ELSE fresh
      row == [old EXCEPT !.content = pd.content, !.reply_to = pd.reply_to,
                         !.mood = pd.mood, !.include = pd.include]
      st1 == [st EXCEPT !.db.posts = (@ \ {old}) \cup {row},
                        !.db.created = IF exists THEN @
                                       ELSE Append(@, <<u, pd.id>>),
                        !.created = IF exists THEN @ ELSE @ \cup {pd.id},
                        !.updated = IF exists THEN @ \cup {pd.id} ELSE @,
                        !.wrote = @ \cup {IF exists THEN "post.save"
                                          ELSE "post.create"}]
  IN PublishAll(st1, up, PostNotifications(u, row))

\* Post.objects.get_or_create(profile, post_id, defaults) with the
\* notifications of the created branch and the overwrite of the update branch
UpsertPost(st, u, pd, up) ==
  LET d == st.db
      exists == HasPost(d, u, pd.id)
      fresh == [profile |-> u, post_id |-> pd.id, content |-> pd.content,
                reply_to |-> pd.reply_to, mood |-> pd.mood,
                include |-> pd.include, poll_end |-> "",
                poll_options |-> << >>]
      old == IF exists THEN PostOf(d, u, pd.id) ELSE fresh
      row == IF exists
             THEN [old EXCEPT !.content = pd.content,
                              !.reply_to = pd.reply_to,
                              !.mood = pd.mood,
                              !.include = pd.include]
             ELSE fresh
      st1 == [st EXCEPT !.db.posts = (@ \ {old}) \cup {row},
                        !.db.created = IF exists THEN @
                                       ELSE Append(@, <<u, pd.id>>),
                        !.created = IF exists THEN @ ELSE @ \cup {pd.id},
                        !.updated = IF exists THEN @ \cup {pd.id} ELSE @,
                        !.wrote = @ \cup {IF exists THEN "post.save"
                                          ELSE "post.create"}]
  IN IF exists THEN st1 ELSE PublishAll(st1, up, PostNotifications(u, row))

\* dateutil's parser raises on a string that is no date
DateParses(s) == s # "bad"

\* post.poll_end is set only when the property is present and parses
SetPollEnd(st, u, pd) ==
  IF pd.poll_end # "" /\ DateParses(pd.poll_end)
  THEN LET old == PostOf(st.db, u, pd.id)
       IN [st EXCEPT !.db.posts = (@ \ {old})
                          \cup {[old EXCEPT !.poll_end = pd.poll_end]},
                     !.wrote = @ \cup {"post.save"}]
  ELSE st

\* poll options are replaced only when the parse has some; creating the
\* same option_text twice breaks unique_together (post, option_text)
ReplacePollOptions(st, u, pd) ==
  IF pd.poll_options = << >> THEN st
  ELSE LET old == PostOf(st.db, u, pd.id)
           dup == \E a, b \in 1..Len(pd.poll_options) :
                     a < b /\ pd.poll_options[a] = pd.poll_options[b]
           k == IF dup
                THEN CHOOSE b \in 1..Len(pd.poll_options) :
                       /\ \E a \in 1..(b - 1) :
                             pd.poll_options[a] = pd.poll_options[b]
                       /\ \A c \in 1..(b - 1) : \A a \in 1..(c - 1) :
                             pd.poll_options[a] # pd.poll_options[c]
                ELSE Len(pd.poll_options) + 1
       IN [st EXCEPT !.db.posts = (@ \ {old})
                 \cup {[old EXCEPT !.poll_options =
                                      SubSeq(pd.poll_options, 1, k - 1)]},
                     !.wrote = @ \cup {"polloption.replace"},
                     !.aborted = dup]

\* RecordPollVote that looks at the posts this sync created and at no other
RecordPollVoteMut(st, u, pd) ==
  LET d == st.db
      post == PostOf(d, u, pd.id)
      r == post.reply_to
  IN IF pd.poll_option # "" /\ r # NoRef /\ Len(r) = 2
        /\ pd.id \in st.created
        /\ HasProfile(d, r[1]) /\ HasPost(d, r[1], r[2])
     THEN LET key == <<PostKey(post), <<r[1], r[2]>>>>
              rest == {v \in d.votes : <<v.post, v.poll_post>> # key}
              row == [post |-> key[1], poll_post |-> key[2],
                      poll_option |-> pd.poll_option]
          IN [st EXCEPT !.db.votes = rest \cup {row},
                        !.wrote = @ \cup {"pollvote.create"}]
     ELSE st

\* a post with a poll_option and a reply_to is a vote on the post it replies
\* to, recorded only when that profile and post are in the store
RecordPollVote(st, u, pd) ==
  LET d == st.db
      post == PostOf(d, u, pd.id)
      r == post.reply_to
  IN IF pd.poll_option # "" /\ r # NoRef /\ Len(r) = 2
        /\ HasProfile(d, r[1]) /\ HasPost(d, r[1], r[2])
     THEN LET key == <<PostKey(post), <<r[1], r[2]>>>>
              had == \E v \in d.votes : <<v.post, v.poll_post>> = key
              rest == {v \in d.votes : <<v.post, v.poll_post>> # key}
              row == [post |-> key[1], poll_post |-> key[2],
                      poll_option |-> pd.poll_option]
          IN [st EXCEPT !.db.votes = rest \cup {row},
                        !.wrote = @ \cup {IF had THEN "pollvote.save"
                                          ELSE "pollvote.create"}]
     ELSE st

\* RecordMention that announces every mention of a known profile it parses
RecordMentionMut(st, u, i, mi, existing, up) ==
  LET d == st.db
      base == IF mi.url = << >> THEN "" ELSE mi.url[1]
  IN IF base = "" \/ ~HasProfile(d, base) THEN st
     ELSE LET rest == {m \in d.mentions :
                         ~(m.post = <<u, i>> /\ m.mentioned = base)}
              row == [post |-> <<u, i>>, mentioned |-> base,
                      nickname |-> mi.nickname]
          IN Publish([st EXCEPT !.db.mentions = rest \cup {row},
                                !.wrote = @ \cup {"mention.create"},
                                !.newMentions = @ \cup {<<i, base>>}],
                     up,
                     Event("mention", base, <<u, i>>, "", NoRef, NoRef))

\* one extracted mention: the base url is what precedes the first "#"
RecordMention(st, u, i, mi, existing, up) ==
  LET d == st.db
      base == IF mi.url = << >> THEN "" ELSE mi.url[1]
  IN IF base = "" \/ ~HasProfile(d, base) \/ base \in existing THEN st
     ELSE LET had == \E m \in d.mentions :
                        m.post = <<u, i>> /\ m.mentioned = base
              row == [post |-> <<u, i>>, mentioned |-> base,
                      nickname |-> mi.nickname]
          IN IF had THEN st
             ELSE Publish([st EXCEPT !.db.mentions = @ \cup {row},
                                     !.wrote = @ \cup {"mention.create"},
                                     !.newMentions = @ \cup {<<i, base>>}],
                          up,
                          Event("mention", base, <<u, i>>, "", NoRef, NoRef))

RECURSIVE RecordMentions(_, _, _, _, _, _)
RecordMentions(st, u, i, ms, existing, up) ==
  IF ms = << >> THEN st
  ELSE RecordMentions(RecordMention(st, u, i, Head(ms), existing, up),
                      u, i, Tail(ms), existing, up)

\* the mentions of one post; existing_mentions is read once before the loop
HandleMentions(st, u, pd, up) ==
  LET existing == {m.mentioned : m \in {x \in st.db.mentions :
                                          x.post = <<u, pd.id>>}}
  IN RecordMentions(st, u, pd.id, pd.mentions, existing, up)

\* one iteration of "for post_data in posts_data"
ProcessPost(st, u, pd, up) ==
  IF pd.id = "" THEN st
  ELSE LET s1 == UpsertPost(st, u, pd, up)
           s2 == SetPollEnd(s1, u, pd)
           s3 == ReplacePollOptions(s2, u, pd)
       IN IF s3.aborted THEN s3
          ELSE HandleMentions(RecordPollVote(s3, u, pd), u, pd, up)

RECURSIVE ProcessPosts(_, _, _, _)
ProcessPosts(st, u, pds, up) ==
  IF pds = << >> \/ st.aborted THEN st
  ELSE ProcessPosts(ProcessPost(st, u, Head(pds), up), u, Tail(pds), up)

\* DeletedPostIds that keeps only the posts this scan created or updated
\* first, as if the parsed ids were collected from the first post alone
DeletedPostIdsMut(d, u, doc) ==
  PostIdsOf(d, u) \ (IF doc.posts = << >> THEN {} ELSE {doc.posts[1].id})

\* "Detect and remove deleted posts": stored ids minus parsed ids
DeletedPostIds(d, u, doc) ==
  PostIdsOf(d, u) \ ({doc.posts[k].id : k \in 1..Len(doc.posts)} \ {""})

\* RemoveDeletedPosts that selects the rows by post_id alone, whoever owns
\* them
RemoveDeletedPostsMut(st, u, doc) ==
  LET gone == DeletedPostIds(st.db, u, doc)
  IN IF gone = {} THEN st
     ELSE [st EXCEPT !.db = DeletePosts(@, {PostKey(p) :
                                 p \in {q \in st.db.posts : q.post_id \in gone}}),
                     !.wrote = @ \cup {"post.delete"}]

RemoveDeletedPosts(st, u, doc) ==
  LET gone == DeletedPostIds(st.db, u, doc)
  IN IF gone = {} THEN st
     ELSE [st EXCEPT !.db = DeletePosts(@, {<<u, i>> : i \in gone}),
                     !.wrote = @ \cup {"post.delete"}]

\* the try body after parse_org_social has returned doc for the feed u
StoreParsed(d, u, doc, up) ==
  LET s0 == StepState(d)
      s1 == UpsertProfile(s0, u, doc)
      s2 == ProcessPosts(s1, u, doc.posts, up)
  IN IF s2.aborted THEN s2 ELSE RemoveDeletedPosts(s2, u, doc)

\* the try body for one feed whose fetch returned doc from its own url
\* with status 200
SyncFeed(d, u, doc, up) == StoreParsed(StampFetch(d, u), u, doc, up)

----------------------------------------------------------------------------
(* app/replies/views.py: RepliesView *)

\* Post.objects.filter(reply_to=ref).order_by("created_at"), as post keys
RepliesTo(d, ref) ==
  SelectSeq(d.created, LAMBDA k : PostOf(d, k[1], k[2]).reply_to = ref)

RECURSIVE NestedReplies(_, _)
NestedReplies(d, level) ==
  IF level = << >> THEN << >>
  ELSE RepliesTo(d, Head(level)) \o NestedReplies(d, Tail(level))

\* the "while current_level" loop; it does not end when the replies of the
\* root lead back to the root, which fuel detects
RECURSIVE GatherReplies(_, _, _)
GatherReplies(d, level, fuel) ==
  IF level = << >> THEN [hang |-> FALSE, all |-> << >>]
  ELSE IF fuel = 0 THEN [hang |-> TRUE, all |-> << >>]
  ELSE LET rest == GatherReplies(d, NestedReplies(d, level), fuel - 1)
       IN [hang |-> rest.hang, all |-> level \o rest.all]

\* _find_children over the gathered list, for a list without a cycle
RECURSIVE FindChildren(_, _, _)
FindChildren(d, parent, all) ==
  LET mine == SelectSeq(all, LAMBDA k : PostOf(d, k[1], k[2]).reply_to = parent)
  IN [n \in 1..Len(mine) |->
        [post |-> mine[n], children |-> FindChildren(d, mine[n], all)]]

NotFound == [status |-> 404, data |-> << >>]
NoAnswer == [status |-> 0, data |-> << >>]

\* the response computed on a cache miss for the request key <<feed, id>>
\* (meta.version, a digest of updated_at and the reply count, is left out)
RepliesView(d, key) ==
  IF ~(HasProfile(d, key[1]) /\ HasPost(d, key[1], key[2])) THEN NotFound
  ELSE LET g == GatherReplies(d, RepliesTo(d, key), Cardinality(d.posts) + 1)
       IN IF g.hang THEN NoAnswer
          ELSE [status |-> 200, data |-> FindChildren(d, key, g.all)]

ReadKeys == {<<FB, "t1">>, <<FA, "t1">>}
NoBody == [status |-> -1, data |-> << >>]
NoCache == [k \in ReadKeys |-> NoBody]

----------------------------------------------------------------------------
(* Remote documents and their edits *)

HasRemotePost(doc, i) == \E k \in 1..Len(doc.posts) : doc.posts[k].id = i

\* the author rewrites post i, or appends it when the document lacks it
PutPost(doc, i, b) ==
  IF HasRemotePost(doc, i)
  THEN [doc EXCEPT !.posts = [k \in 1..Len(@) |->
                                IF @[k].id = i THEN WithId(i, b) ELSE @[k]]]
  ELSE [doc EXCEPT !.posts = Append(@, WithId(i, b))]

RECURSIVE DropId(_, _)
DropId(pds, i) ==
  IF pds = << >> THEN << >>
  ELSE IF Head(pds).id = i THEN DropId(Tail(pds), i)
       ELSE <<Head(pds)>> \o DropId(Tail(pds), i)

DropPost(doc, i) == [doc EXCEPT !.posts = DropId(@, i)]

\* the feeds whose author edits during the run
Editable == {FA}

\* An edit is taken between two cycles.  A cycle reads remote[u] once, in
\* the step that scans u, so an edit made while the cycle runs acts as one
\* made before the cycle (u not yet scanned) or after it (u scanned).

----------------------------------------------------------------------------
(* History kept for the properties *)

RecIdle ==
  [pc |-> "idle", old |-> "", new |-> "", tx |-> EmptyDb(<< >>),
   pre |-> EmptyDb(<< >>), lost |-> EmptyDb(<< >>), outcome |-> "none",
   prev |-> "none", calls |-> 0]

\* what requests.get came back with: a response with its final status, or
\* a RequestException raised before any response (timeout, connection)
Response(status) == [kind |-> "response", status |-> status]
Timeout == [kind |-> "timeout", status |-> 0]
ConnectionError == [kind |-> "connection", status |-> 0]

NoStep ==
  [feed |-> "", final |-> "", ok |-> FALSE, resp |-> Response(200),
   up |-> FALSE, doc |-> EmptyDoc,
   pre |-> EmptyDb(<< >>), wasClean |-> FALSE,
   calls |-> << >>, sent |-> << >>, created |-> {}, updated |-> {},
   wrote |-> {}, newMentions |-> {}, aborted |-> FALSE]

StepRecord(u, up, doc, d, wasClean, st) ==
  [feed |-> u, final |-> u, ok |-> TRUE, resp |-> Response(200), up |-> up,
   doc |-> doc,
   pre |-> d,
   wasClean |-> wasClean,
   calls |-> st.calls, sent |-> st.sent, created |-> st.created,
   updated |-> st.updated, wrote |-> st.wrote,
   newMentions |-> st.newMentions, aborted |-> st.aborted]

RECURSIVE MentionKeys(_)
MentionKeys(evs) ==
  IF evs = << >> THEN EmptyBag
  ELSE (IF Head(evs).type = "mention"
        THEN SetToBag({<<Head(evs).post[1], Head(evs).post[2],
                         Head(evs).target>>})
        ELSE EmptyBag) (+) MentionKeys(Tail(evs))

\* the reply, reaction and boost events among the publisher's calls
RECURSIVE PostEventKeys(_)
PostEventKeys(evs) ==
  IF evs = << >> THEN EmptyBag
  ELSE (IF Head(evs).type \in {"reply", "reaction", "boost"}
        THEN SetToBag({<<Head(evs).post[1], Head(evs).post[2],
                         Head(evs).type>>})
        ELSE EmptyBag) (+) PostEventKeys(Tail(evs))

ForgetPost(b, u, i) ==
  [k \in {x \in DOMAIN b : <<x[1], x[2]>> # <<u, i>>} |-> b[k]]

\* no request in flight, the ETag of a relay that has not finished a cycle
\*   etag: the stored global ETag, hdr: its cached copy (NoTag: none),
\*   fin: the next statement of the end of the cycle,
\*   filled[k]: the stored ETag when the cached body of k was computed,
\*   req: the response a view has returned to the middleware,
\*   ans: the last response sent to a client
NoTag == -1
WebIdle ==
  [etag |-> 0, hdr |-> NoTag, fin |-> "bump",
   filled |-> [k \in ReadKeys |-> NoTag], req |-> << >>, ans |-> << >>]

\* the consumer's workers, none of them executing scan_feeds
Workers == {"w1", "w2"}
NoRuns == [w \in Workers |-> [pc |-> "off", queue |-> << >>, cur |-> ""]]

\* the clients of the SSE endpoint, none of them connected
\*   conn[c]: the feed whose channel the stream of c is subscribed to,
\*   inbox[c]: the messages Redis has pushed on the connection of c,
\*   got[c]: the publish numbers of the notifications yielded to c,
\*   log: for every publish, its channel, whether Redis took it and the
\*        clients subscribed to the channel then
Clients == {"c1", "c2"}
Channels == {FA, FB}
\* no post under the parser
\*   head: what follows "** " on the marker line, lines: the property lines
\*   between :PROPERTIES: and :END:, props: post["properties"], out: the
\*   posts of the result (at most one), done: the parser has run
Unparsed ==
  [head |-> << >>, lines |-> << >>, props |-> << >>, out |-> << >>,
   done |-> FALSE]

NoBus ==
  [conn |-> [c \in Clients |-> ""], inbox |-> [c \in Clients |-> << >>],
   got |-> [c \in Clients |-> << >>], log |-> << >>]

----------------------------------------------------------------------------
(* Specification Spec: scan cycles against documents that their authors    *)
(* edit                                                                    *)

FeedOrders == {<<FA>>, <<FA, FB>>, <<FB, FA>>}

\* fb, whose document never changes, is registered before fa; a cycle in
\* which the fetch of fb fails scans fa alone
Init ==
  /\ db = EmptyDb(<<FB, FA>>)
  /\ remote = [u \in URLs |-> IF u = FB THEN PollDoc ELSE EmptyDoc]
  /\ phase = "idle"
  /\ queue = << >>
  /\ cycles = 0
  /\ edits = 0
  /\ last = NoStep
  /\ clean = [u \in URLs |-> FALSE]
  /\ mentionPub = EmptyBag
  /\ cache = NoCache
  /\ served = {}
  /\ snap = EmptyDb(<< >>)
  /\ rec = RecIdle
  /\ web = WebIdle
  /\ runs = NoRuns
  /\ bus = NoBus
  /\ now = 1
  /\ parse = Unparsed
  /\ postPub = EmptyBag

\* all_feeds = Feed.objects.all(); an empty table ends the task at once
StartCycle ==
  /\ phase = "idle"
  /\ cycles < MaxCycles
  /\ Len(db.feeds) > 0
  /\ phase' = "scanning"
  /\ queue' = [k \in 1..Len(db.feeds) |-> db.feeds[k].url]
  /\ cycles' = cycles + 1
  /\ UNCHANGED <<db, remote, edits, last, clean, mentionPub, cache, served,
                 snap, rec, web, runs, bus, now, parse, postPub>>

\* one iteration of "for feed in all_feeds" whose fetch succeeds
SyncOne ==
  /\ phase = "scanning"
  /\ queue # << >>
  /\ \E up \in BOOLEAN :
       LET u == Head(queue)
           st == SyncFeed(db, u, remote[u], up)
       IN /\ db' = st.db
          /\ last' = StepRecord(u, up, remote[u], db, clean[u], st)
          /\ clean' = [v \in URLs |->
                         IF v = u THEN ~st.aborted
                         ELSE clean[v] /\ st.db = db]
          /\ mentionPub' = mentionPub (+) MentionKeys(st.calls)
          /\ postPub' = postPub (+) PostEventKeys(st.calls)
  /\ queue' = Tail(queue)
  /\ UNCHANGED <<remote, phase, cycles, edits, cache, served, snap, rec,
                 web, runs, bus, now, parse>>

\* SyncFail that lets the exception leave the loop: the cycle is abandoned
SyncFailMut ==
  /\ phase = "scanning"
  /\ queue # << >>
  /\ last' = [NoStep EXCEPT !.feed = Head(queue), !.pre = db]
  /\ queue' = << >>
  /\ UNCHANGED <<db, remote, phase, cycles, edits, clean, mentionPub,
                 cache, served, snap, rec, web, runs, bus, now, parse,
                 postPub>>

\* one iteration whose fetch raises: counted as failed, nothing written
SyncFail ==
  /\ phase = "scanning"
  /\ queue # << >>
  /\ last' = [NoStep EXCEPT !.feed = Head(queue), !.pre = db]
  /\ queue' = Tail(queue)
  /\ UNCHANGED <<db, remote, phase, cycles, edits, clean, mentionPub,
                 cache, served, snap, rec, web, runs, bus, now, parse,
                 postPub>>

\* the loop is over: cache.clear() empties the response caches
FinishCycle ==
  /\ phase = "scanning"
  /\ queue = << >>
  /\ phase' = "idle"
  /\ cache' = NoCache
  /\ last' = NoStep
  /\ UNCHANGED <<db, remote, queue, cycles, edits, clean, mentionPub,
                 served, snap, rec, web, runs, bus, now, parse, postPub>>

EditPost ==
  /\ phase = "idle"
  /\ edits < MaxEdits
  /\ \E u \in Editable, i \in PostIds, b \in Bodies :
       /\ remote' = [remote EXCEPT ![u] = PutPost(@, i, b)]
       /\ remote'[u] # remote[u]
       /\ clean' = [clean EXCEPT ![u] = FALSE]
  /\ edits' = edits + 1
  /\ UNCHANGED <<db, phase, queue, cycles, last, mentionPub,
                 cache, served, snap, rec, web, runs, bus, now, parse,
                 postPub>>

RemovePost ==
  /\ phase = "idle"
  /\ edits < MaxEdits
  /\ \E u \in Editable :
     \E i \in {remote[u].posts[k].id : k \in 1..Len(remote[u].posts)} :
       /\ remote' = [remote EXCEPT ![u] = DropPost(@, i)]
       /\ clean' = [clean EXCEPT ![u] = FALSE]
       /\ mentionPub' = ForgetPost(mentionPub, u, i)
       /\ UNCHANGED postPub
  /\ edits' = edits + 1
  /\ UNCHANGED <<db, phase, queue, cycles, last, cache, served, snap, rec,
                 web, runs, bus, now, parse>>

EditMeta ==
  /\ phase = "idle"
  /\ edits < MaxEdits
  /\ \E u \in Editable, m \in Metas :
       /\ m # remote[u].metadata
       /\ remote' = [remote EXCEPT ![u].metadata = m]
       /\ clean' = [clean EXCEPT ![u] = FALSE]
  /\ edits' = edits + 1
  /\ UNCHANGED <<db, phase, queue, cycles, last, mentionPub,
                 cache, served, snap, rec, web, runs, bus, now, parse,
                 postPub>>

Next ==
  \/ StartCycle
  \/ SyncOne
  \/ SyncFail
  \/ FinishCycle
  \/ EditPost
  \/ RemovePost
  \/ EditMeta

Spec == Init /\ [][Next]_vars

----------------------------------------------------------------------------
(* Specification SpecDel: scan cycles over a three-post document from      *)
(* which the author removes posts                                          *)

DelBodies ==
  { Body("c1", NoRef, "", NoRef, "", "", << >>, << >>),
    Body("c1", Ref(FB, "t1"), "", NoRef, "e1", "o1", <<"o1", "o2">>,
         <<Ment(<<FB>>, "a")>>),
    Body("", Ref(FA, "t2"), "", NoRef, "", "o1", << >>, << >>) }

DelDocs ==
  { [metadata |-> [title |-> "n1", links |-> << >>],
     posts |-> <<WithId("t2", b2), WithId("t1", b1), WithId("t3", b3)>>] :
       b1 \in DelBodies, b2 \in DelBodies, b3 \in DelBodies }

InitDel ==
  /\ \E o \in FeedOrders : db = EmptyDb(o)
  /\ \E doc \in DelDocs :
       remote = [u \in URLs |-> IF u = FB THEN PollDoc
                                ELSE IF u = FA THEN doc ELSE EmptyDoc]
  /\ phase = "idle"
  /\ queue = << >>
  /\ cycles = 0
  /\ edits = 0
  /\ last = NoStep
  /\ clean = [u \in URLs |-> FALSE]
  /\ mentionPub = EmptyBag
  /\ cache = NoCache
  /\ served = {}
  /\ snap = EmptyDb(<< >>)
  /\ rec = RecIdle
  /\ web = WebIdle
  /\ runs = NoRuns
  /\ bus = NoBus
  /\ now = 1
  /\ parse = Unparsed
  /\ postPub = EmptyBag

NextDel ==
  \/ StartCycle
  \/ SyncOne
  \/ SyncFail
  \/ FinishCycle
  \/ RemovePost

SpecDel == InitDel /\ [][NextDel]_vars

----------------------------------------------------------------------------
(* Specification SpecRead: one scan cycle after another while clients      *)
(* request the replies view                                                *)

PlainBody == Body("c1", NoRef, "", NoRef, "", "", << >>, << >>)
ReplyBody(ref) == Body("c1", ref, "", NoRef, "", "", << >>, << >>)

DocOf(pds) == [metadata |-> [title |-> "n1", links |-> << >>], posts |-> pds]

ReadDocsA ==
  { DocOf(<<WithId("t1", b)>> \o rest) :
      b \in {PlainBody, ReplyBody(Ref(FB, "t1"))},
      rest \in { << >>, <<WithId("t2", ReplyBody(Ref(FA, "t1")))>>,
                 <<WithId("t2", ReplyBody(Ref(FB, "t1")))>> } }

ReadDocsB ==
  { DocOf(<<WithId("t1", PlainBody)>> \o rest) :
      rest \in { << >>, <<WithId("t2", ReplyBody(Ref(FB, "t1")))>>,
                 <<WithId("t2", ReplyBody(Ref(FA, "t1")))>> } }

InitRead ==
  /\ \E o \in {<<FA, FB>>, <<FB, FA>>} : db = EmptyDb(o)
  /\ \E da \in ReadDocsA, dbb \in ReadDocsB :
       remote = [u \in URLs |-> IF u = FA THEN da
                                ELSE IF u = FB THEN dbb ELSE EmptyDoc]
  /\ phase = "idle"
  /\ queue = << >>
  /\ cycles = 0
  /\ edits = 0
  /\ last = NoStep
  /\ clean = [u \in URLs |-> FALSE]
  /\ mentionPub = EmptyBag
  /\ cache = NoCache
  /\ served = {}
  /\ snap = EmptyDb(<< >>)
  /\ rec = RecIdle
  /\ web = WebIdle
  /\ runs = NoRuns
  /\ bus = NoBus
  /\ now = 1
  /\ parse = Unparsed
  /\ postPub = EmptyBag

\* RepliesView.get: answer from the cache, else compute and cache a 200
Read ==
  /\ \E key \in ReadKeys :
       LET hit == cache[key] # NoBody
           resp == IF hit THEN cache[key] ELSE RepliesView(db, key)
       IN /\ cache' = IF ~hit /\ resp.status = 200
                      THEN [cache EXCEPT ![key] = resp] ELSE cache
          /\ served' = IF phase = "scanning" THEN served \cup {<<key, resp>>}
                       ELSE served
  /\ UNCHANGED <<db, remote, phase, queue, cycles, edits, last, clean,
                 mentionPub, snap, rec, web, runs, bus, now, parse, postPub>>

\* a cached response reaches its timeout of 300 seconds
Expire ==
  /\ \E key \in ReadKeys :
       /\ cache[key] # NoBody
       /\ cache' = [cache EXCEPT ![key] = NoBody]
  /\ UNCHANGED <<db, remote, phase, queue, cycles, edits, last, clean,
                 mentionPub, served, snap, rec, web, runs, bus, now, parse,
                 postPub>>

\* StartCycle, with the store and the answers of the cycle kept for C1
StartCycleObserved ==
  /\ phase = "idle"
  /\ cycles < MaxCycles
  /\ Len(db.feeds) > 0
  /\ phase' = "scanning"
  /\ queue' = [k \in 1..Len(db.feeds) |-> db.feeds[k].url]
  /\ cycles' = cycles + 1
  /\ snap' = db
  /\ served' = {}
  /\ UNCHANGED <<db, remote, edits, last, clean, mentionPub, cache, rec,
                 web, runs, bus, now, parse, postPub>>

NextRead ==
  \/ StartCycleObserved
  \/ SyncOne
  \/ SyncFail
  \/ FinishCycle
  \/ Read
  \/ Expire

SpecRead == InitRead /\ [][NextRead]_vars

\* C1: every response given during a cycle shows the store as it was before
\* the cycle or as it is after the cycle, never a store in between
C1_ReadsSeeWholeCycles ==
  (phase = "idle" /\ cycles > 0) =>
    \A r \in served :
      r[2] = RepliesView(snap, r[1]) \/ r[2] = RepliesView(db, r[1])

----------------------------------------------------------------------------
(* Specification SpecTag: scan cycles that end statement by statement,     *)
(* while a client request passes through the view and then the middleware  *)

\* fa is scanned before fb, whose second post replies to the post of fa
InitTag ==
  /\ db = EmptyDb(<<FA, FB>>)
  /\ remote = [u \in URLs |->
                 IF u = FA THEN DocOf(<<WithId("t1", PlainBody)>>)
                 ELSE IF u = FB
                      THEN DocOf(<<WithId("t1", PlainBody),
                                   WithId("t2", ReplyBody(Ref(FA, "t1")))>>)
                      ELSE EmptyDoc]
  /\ phase = "idle"
  /\ queue = << >>
  /\ cycles = 0
  /\ edits = 0
  /\ last = NoStep
  /\ clean = [u \in URLs |-> FALSE]
  /\ mentionPub = EmptyBag
  /\ cache = NoCache
  /\ served = {}
  /\ snap = EmptyDb(<< >>)
  /\ rec = RecIdle
  /\ web = WebIdle
  /\ runs = NoRuns
  /\ bus = NoBus
  /\ now = 1
  /\ parse = Unparsed
  /\ postPub = EmptyBag

\* RelayMetadata.update_global_metadata(): a new global ETag
UpdateGlobalMetadata(w) == [w EXCEPT !.etag = @ + 1]

\* RelayMetadata.get_global_metadata(): the cached headers when there are
\* some, else the stored pair, which is then cached
GetGlobalMetadata(w) ==
  LET e == IF w.hdr # NoTag THEN w.hdr ELSE w.etag
  IN [etag |-> e, web |-> [w EXCEPT !.hdr = e]]

\* FinishStatement that never calls update_global_metadata
FinishStatementMut(pos, w, c) ==
  CASE pos = "bump" -> [fin |-> "drop", web |-> w, cache |-> c]
    [] pos = "drop" ->
         [fin |-> "clear", web |-> [w EXCEPT !.hdr = NoTag], cache |-> c]
    [] OTHER ->
         [fin |-> "bump", web |-> [w EXCEPT !.hdr = NoTag], cache |-> NoCache]

\* the three statements that end scan_feeds, one at a time:
\* update_global_metadata(), cache.delete("relay_metadata_headers") and
\* cache.clear(), which empties the header cache too
FinishStatement(pos, w, c) ==
  CASE pos = "bump" ->
         [fin |-> "drop", web |-> UpdateGlobalMetadata(w), cache |-> c]
    [] pos = "drop" ->
         [fin |-> "clear", web |-> [w EXCEPT !.hdr = NoTag], cache |-> c]
    [] OTHER ->
         [fin |-> "bump", web |-> [w EXCEPT !.hdr = NoTag], cache |-> NoCache]

FinishStep ==
  /\ phase = "scanning"
  /\ queue = << >>
  /\ LET r == FinishStatement(web.fin, web, cache)
     IN /\ web' = [r.web EXCEPT !.fin = r.fin]
        /\ cache' = r.cache
  /\ phase' = IF web.fin = "clear" THEN "idle" ELSE phase
  /\ last' = IF web.fin = "clear" THEN NoStep ELSE last
  /\ UNCHANGED <<db, remote, queue, cycles, edits, clean, mentionPub,
                 served, snap, rec, runs, bus, now, parse, postPub>>

\* RepliesView.get returns its response to the middleware
TagView ==
  /\ web.req = << >>
  /\ \E key \in ReadKeys :
       LET hit == cache[key] # NoBody
           resp == IF hit THEN cache[key] ELSE RepliesView(db, key)
           fill == ~hit /\ resp.status = 200
       IN /\ cache' = IF fill THEN [cache EXCEPT ![key] = resp] ELSE cache
          /\ web' = [web EXCEPT
                       !.filled[key] = IF fill THEN web.etag ELSE @,
                       !.req = <<[key |-> key, body |-> resp, hit |-> hit,
                                  gen |-> IF hit THEN web.filled[key]
                                          ELSE web.etag]>>]
  /\ UNCHANGED <<db, remote, phase, queue, cycles, edits, last, clean,
                 mentionPub, served, snap, rec, runs, bus, now, parse,
                 postPub>>

\* RelayMetadataMiddleware.__call__: a 2xx response gets the global ETag
TagHeaders ==
  /\ web.req # << >>
  /\ LET q == web.req[1]
         ok == q.body.status >= 200 /\ q.body.status < 300
         g == GetGlobalMetadata(web)
         w == IF ok THEN g.web ELSE web
     IN web' = [w EXCEPT
                  !.req = << >>,
                  !.ans = <<[key |-> q.key, hit |-> q.hit, gen |-> q.gen,
                             etag |-> IF ok THEN g.etag ELSE NoTag,
                             phase |-> phase, fin |-> web.fin,
                             cycles |-> cycles]>>]
  /\ UNCHANGED <<db, remote, phase, queue, cycles, edits, last, clean,
                 mentionPub, cache, served, snap, rec, runs, bus, now,
                 parse, postPub>>

NextTag ==
  \/ StartCycle
  \/ SyncOne
  \/ SyncFail
  \/ FinishStep
  \/ TagView
  \/ TagHeaders

SpecTag == InitTag /\ [][NextTag]_vars

C15_BumpAndClearAtomic ==
  (web.ans # << >> /\ web.ans[1].etag # NoTag /\ web.ans[1].hit) =>
    web.ans[1].etag <= web.ans[1].gen

----------------------------------------------------------------------------
(* Specification SpecFair: scan cycles in which fetches fail and writes    *)
(* are refused by the store.  The loop is sequential code and every fetch  *)
(* ends within its timeout, so an iteration that can run does run.         *)

\* a poll whose option list repeats an option: the second PollOption row
\* breaks unique_together (post, option_text)
BrokenPollBody == Body("c1", NoRef, "", NoRef, "e1", "", <<"o1", "o1">>, << >>)

FairDocs ==
  { DocOf(<<WithId("t1", PlainBody)>>),
    DocOf(<<WithId("t1", BrokenPollBody), WithId("t2", PlainBody)>>),
    DocOf(<<WithId("t1", ReplyBody(Ref(FB, "t1"))),
            WithId("t2", BrokenPollBody)>>) }

InitFair ==
  /\ \E o \in {<<FA, FB>>, <<FB, FA>>} : db = EmptyDb(o)
  /\ \E da \in FairDocs, dbb \in FairDocs :
       remote = [u \in URLs |-> IF u = FA THEN da
                                ELSE IF u = FB THEN dbb ELSE EmptyDoc]
  /\ phase = "idle"
  /\ queue = << >>
  /\ cycles = 0
  /\ edits = 0
  /\ last = NoStep
  /\ clean = [u \in URLs |-> FALSE]
  /\ mentionPub = EmptyBag
  /\ cache = NoCache
  /\ served = {}
  /\ snap = EmptyDb(<< >>)
  /\ rec = RecIdle
  /\ web = WebIdle
  /\ runs = NoRuns
  /\ bus = NoBus
  /\ now = 1
  /\ parse = Unparsed
  /\ postPub = EmptyBag

NextFair ==
  \/ StartCycle
  \/ SyncOne
  \/ SyncFail
  \/ FinishCycle

\* SyncOne and SyncFail are enabled in the same states (a feed is queued)
\* and each of their steps takes one feed off the queue, so weak fairness
\* of SyncFail excludes exactly the behaviours that stop in the middle of
\* the loop; it never forces a fetch to fail.
SpecFair ==
  /\ InitFair
  /\ [][NextFair]_vars
  /\ WF_vars(SyncFail)
  /\ WF_vars(FinishCycle)

InQueue(u) == \E k \in 1..Len(queue) : queue[k] = u

\* C17: every feed that a cycle has queued is processed in that cycle,
\* whatever happens to the feeds before it, and the cycle ends
C17_FailureIsolated ==
  /\ \A u \in {FA, FB} :
       (phase = "scanning" /\ InQueue(u)) ~> (last.feed = u)
  /\ (phase = "scanning") ~> (phase = "idle")

\* fb was scanned in the cycle in which the fetch of fa, the feed before
\* it, had failed
C17_Witness ==
  /\ cycles = 1
  /\ db.feeds[1].url = FA
  /\ ~HasProfile(db, FA)
  /\ last.feed = FB
  /\ last.ok
  /\ HasProfile(db, FB)

----------------------------------------------------------------------------
(* Specification SpecFetch: scan cycles in which the server of a feed      *)
(* answers with any status, or not at all.                                 *)

\* final statuses (redirects that carry a Location have been followed):
\* 203 comes with the document, 304 comes without a body
Responses ==
  {Response(200), Response(203), Response(304), Response(404),
   Response(503), Timeout, ConnectionError}

\* response.raise_for_status(): HTTPError for 400 <= status < 600
RaiseForStatus(r) == r.status >= 400 /\ r.status < 600

\* the result of the parser for an empty body: the initial result structure
BlankDoc == [metadata |-> [title |-> "", links |-> << >>], posts |-> << >>]

\* response.content as the parser reads it
Content(r, doc) == IF r.status \in {200, 203} THEN doc ELSE BlankDoc

\* parse_org_social(u) when the server answers r and holds doc at u
ParseOrgSocial(d, u, r, doc) ==
  IF r.kind # "response" \/ RaiseForStatus(r)
  THEN [raised |-> TRUE, db |-> d, doc |-> BlankDoc]
  ELSE [raised |-> FALSE,
        db |-> IF r.status = 200 THEN StampFetch(d, u) ELSE d,
        doc |-> Content(r, doc)]

\* one iteration of "for feed in all_feeds", whatever the server answers
FetchOne ==
  /\ phase = "scanning"
  /\ queue # << >>
  /\ \E r \in Responses, up \in BOOLEAN :
       LET u == Head(queue)
           got == ParseOrgSocial(db, u, r, remote[u])
           st == StoreParsed(got.db, u, got.doc, up)
       IN IF got.raised
          THEN /\ db' = got.db
               /\ last' = [NoStep EXCEPT !.feed = u, !.pre = db, !.resp = r]
               /\ UNCHANGED <<clean, mentionPub, postPub>>
          ELSE /\ db' = st.db
               /\ last' = [StepRecord(u, up, got.doc, db, clean[u], st)
                             EXCEPT !.resp = r]
               /\ clean' = [v \in URLs |->
                              IF v = u THEN ~st.aborted
                              ELSE clean[v] /\ st.db = db]
               /\ mentionPub' = mentionPub (+) MentionKeys(st.calls)
               /\ postPub' = postPub (+) PostEventKeys(st.calls)
  /\ queue' = Tail(queue)
  /\ UNCHANGED <<remote, phase, cycles, edits, cache, served, snap, rec,
                 web, runs, bus, now, parse>>

NextFetch ==
  \/ StartCycle
  \/ FetchOne
  \/ FinishCycle

SpecFetch == InitTag /\ [][NextFetch]_vars

\* the fetch failed: no response, or a response outside 200..299
FetchFailed(r) ==
  r.kind # "response" \/ r.status < 200 \/ r.status > 299

\* C18: an iteration whose fetch failed (non-2xx response, timeout or
\* transport error) leaves the store as it was
C18_FailedFetchWritesNothing ==
  (last.feed # "" /\ FetchFailed(last.resp)) => db = last.pre

----------------------------------------------------------------------------
(* Specification SpecBus: SSE streams that come and go while notifications *)
(* are published.  Redis pushes a published message on the connections     *)
(* subscribed to the channel at that moment and keeps nothing.             *)

MaxEvents == 3

\* the connections PUBLISH hands the message to
Subscribed(b, f) == {c \in Clients : b.conn[c] = f}

\* pubsub = r.pubsub(); pubsub.subscribe("notifications:" + feed_url)
SseSubscribe ==
  /\ \E c \in Clients, f \in Channels :
       /\ bus.conn[c] = ""
       /\ bus' = [bus EXCEPT !.conn[c] = f, !.inbox[c] = << >>]
  /\ UNCHANGED <<db, remote, phase, queue, cycles, edits, last, clean,
                 mentionPub, cache, served, snap, rec, web, runs, now,
                 parse, postPub>>

\* r.publish(channel, json.dumps(notification)) of one publish_notification
\* call; with Redis unreachable the call returns False
BusPublish ==
  /\ Len(bus.log) < MaxEvents
  /\ \E f \in Channels, up \in BOOLEAN :
       LET n == Len(bus.log) + 1
           ev == Event("mention", f, <<FC, "t1">>, "", NoRef, NoRef)
           out == PublishNotification(up, ev)
           to == IF out = << >> THEN {} ELSE Subscribed(bus, f)
       IN bus' = [bus EXCEPT
                    !.inbox = [c \in Clients |->
                                 IF c \in to
                                 THEN Append(@[c], [id |-> n, ev |-> ev])
                                 ELSE @[c]],
                    !.log = Append(@, [channel |-> f, sent |-> out # << >>,
                                       at |-> to])]
  /\ UNCHANGED <<db, remote, phase, queue, cycles, edits, last, clean,
                 mentionPub, cache, served, snap, rec, web, runs, now,
                 parse, postPub>>

\* GetMessage that peeks: the message stays on the connection
GetMessageMut(box) == [msg |-> Head(box), rest |-> box]

\* pubsub.get_message(timeout=1) when a message has arrived
GetMessage(box) == [msg |-> Head(box), rest |-> Tail(box)]

\* one round of the "while True" loop that finds a message and yields it as
\* an "event: notification"
SseNotify ==
  /\ \E c \in Clients :
       /\ bus.conn[c] # ""
       /\ bus.inbox[c] # << >>
       /\ LET m == GetMessage(bus.inbox[c])
          IN bus' = [bus EXCEPT !.inbox[c] = m.rest,
                                !.got[c] = Append(@, m.msg.id)]
  /\ UNCHANGED <<db, remote, phase, queue, cycles, edits, last, clean,
                 mentionPub, cache, served, snap, rec, web, runs, now,
                 parse, postPub>>

\* the client goes away: finally: pubsub.close()
SseClose ==
  /\ \E c \in Clients :
       /\ bus.conn[c] # ""
       /\ bus' = [bus EXCEPT !.conn[c] = "", !.inbox[c] = << >>]
  /\ UNCHANGED <<db, remote, phase, queue, cycles, edits, last, clean,
                 mentionPub, cache, served, snap, rec, web, runs, now,
                 parse, postPub>>

NextBus ==
  \/ SseSubscribe
  \/ BusPublish
  \/ SseNotify
  \/ SseClose

SpecBus == InitTag /\ [][NextBus]_vars

\* C20: a client is sent no publish twice, and only publishes made on the
\* channel of its stream while that stream was subscribed
C20_AtMostOnceWhileConnected ==
  \A c \in Clients :
    LET g == bus.got[c]
    IN /\ \A i, j \in 1..Len(g) : g[i] = g[j] => i = j
       /\ \A i \in 1..Len(g) : c \in bus.log[g[i]].at

\* a client that was sent one publish, was away during a later publish on
\* the same channel, and has connected to that channel again
C20_Witness ==
  \E c \in Clients :
    /\ Len(bus.got[c]) = 1
    /\ Len(bus.log) >= 2
    /\ bus.log[1].at = {c}
    /\ bus.log[2].sent
    /\ bus.log[2].at = {}
    /\ bus.log[2].channel = bus.log[1].channel
    /\ bus.conn[c] = bus.log[2].channel
    /\ bus.inbox[c] = << >>

----------------------------------------------------------------------------
(* Specification SpecReap: scan cycles, days that pass, and the cleanup of *)
(* stale feeds.                                                            *)

MaxDays == 6

\* nothing is running and nothing has been observed yet
AtRest ==
  /\ phase = "idle"
  /\ queue = << >>
  /\ cycles = 0
  /\ edits = 0
  /\ last = NoStep
  /\ clean = [u \in URLs |-> FALSE]
  /\ mentionPub = EmptyBag
  /\ cache = NoCache
  /\ served = {}
  /\ snap = EmptyDb(<< >>)
  /\ rec = RecIdle
  /\ web = WebIdle
  /\ runs = NoRuns
  /\ bus = NoBus
  /\ now = 1
  /\ parse = Unparsed
  /\ postPub = EmptyBag

\* three registered feeds, none fetched yet, each serving a profile
InitReap ==
  /\ db = EmptyDb(<<FA, FB, FC>>)
  /\ remote = [u \in URLs |-> EmptyDoc]
  /\ AtRest

\* timedelta(days=3)
RetentionDays == 3

\* Stale without the exclusion of NULL
StaleMut(f, t) == f.last_fetch < t - RetentionDays

\* the filter of stale_feeds: last_successful_fetch__lt=cutoff_date and
\* last_successful_fetch__isnull=False, with cutoff_date = t - 3 days
Stale(f, t) == f.last_fetch # 0 /\ f.last_fetch < t - RetentionDays

\* stale_feeds.delete(): no model refers to Feed, so nothing cascades
CleanupStaleFeedsImpl(d, t) ==
  [d EXCEPT !.feeds = SelectSeq(@, LAMBDA f : ~Stale(f, t))]

\* a day passes
Tick ==
  /\ now < MaxDays
  /\ now' = now + 1
  /\ last' = NoStep
  /\ UNCHANGED <<db, remote, phase, queue, cycles, edits, clean, mentionPub,
                 cache, served, snap, rec, web, runs, bus, parse, postPub>>

\* one iteration of the loop whose fetch succeeds, on the day it runs
SyncToday ==
  /\ phase = "scanning"
  /\ queue # << >>
  /\ LET u == Head(queue)
         st == SyncFeed(db, u, remote[u], TRUE)
     IN /\ db' = StampAt(st.db, u, now)
        /\ last' = StepRecord(u, TRUE, remote[u], db, clean[u], st)
  /\ queue' = Tail(queue)
  /\ UNCHANGED <<remote, phase, cycles, edits, clean, mentionPub, cache,
                 served, snap, rec, web, runs, bus, now, parse, postPub>>

\* cleanup_stale_feeds
CleanupStaleFeeds ==
  /\ db' = CleanupStaleFeedsImpl(db, now)
  /\ last' = [NoStep EXCEPT !.pre = db, !.wrote = {"cleanup"}]
  /\ last' # last
  /\ UNCHANGED <<remote, phase, queue, cycles, edits, clean, mentionPub,
                 cache, served, snap, rec, web, runs, bus, now, parse,
                 postPub>>

NextReap ==
  \/ StartCycle
  \/ SyncToday
  \/ SyncFail
  \/ FinishCycle
  \/ Tick
  \/ CleanupStaleFeeds

SpecReap == InitReap /\ [][NextReap]_vars

StoredFeeds(d) == {d.feeds[k] : k \in 1..Len(d.feeds)}

\* C21: the cleanup removes exactly the Feed rows that have a fetch date
\* more than three days old; rows without a fetch date and rows fetched
\* within the last three days stay
C21_ReaperDeletesExactlyStale ==
  last.wrote = {"cleanup"} =>
    \A f \in StoredFeeds(last.pre) :
      /\ (f \notin StoredFeeds(db)) <=>
           (f.last_fetch # 0 /\ now - f.last_fetch > RetentionDays)
      /\ f.last_fetch = 0 => f \in StoredFeeds(db)
      /\ now - f.last_fetch <= RetentionDays => f \in StoredFeeds(db)

\* a cleanup that met a row without a fetch date, a row fetched exactly
\* three days before and a row fetched earlier than that
C21_Witness ==
  /\ last.wrote = {"cleanup"}
  /\ \E f \in StoredFeeds(last.pre) : f.last_fetch # 0 /\ f \notin StoredFeeds(db)
  /\ \E f \in StoredFeeds(db) : f.last_fetch = 0 /\ now > RetentionDays
  /\ \E f \in StoredFeeds(db) : f.last_fetch # 0 /\ now - f.last_fetch = RetentionDays

----------------------------------------------------------------------------
(* Specification SpecOverlap: the scheduler enqueues scan_feeds every      *)
(* minute and any idle worker of the consumer executes it.  How many       *)
(* workers the consumer has is deployment configuration; scan_feeds itself *)
(* takes no lock.                                                          *)

\* a worker takes the task that the scheduler has enqueued
RunStart(w) ==
  /\ runs[w].pc = "off"
  /\ cycles < MaxCycles
  /\ Len(db.feeds) > 0
  /\ runs' = [runs EXCEPT ![w] =
                [pc |-> "loop",
                 queue |-> [k \in 1..Len(db.feeds) |-> db.feeds[k].url],
                 cur |-> ""]]
  /\ cycles' = cycles + 1
  /\ UNCHANGED <<db, remote, phase, queue, edits, last, clean, mentionPub,
                 cache, served, snap, rec, web, bus, now, parse, postPub>>

\* "for feed in all_feeds": parse_org_social(feed.url) sends its request
RunFetch(w) ==
  /\ runs[w].pc = "loop"
  /\ runs[w].queue # << >>
  /\ runs' = [runs EXCEPT ![w] = [pc |-> "fetching", queue |-> Tail(@.queue),
                                  cur |-> Head(@.queue)]]
  /\ UNCHANGED <<db, remote, phase, queue, cycles, edits, last, clean,
                 mentionPub, cache, served, snap, rec, web, bus, now,
                 parse, postPub>>

\* the response has arrived: the rest of the loop body writes the store
RunWrite(w) ==
  /\ runs[w].pc = "fetching"
  /\ \E up \in BOOLEAN :
       db' = SyncFeed(db, runs[w].cur, remote[runs[w].cur], up).db
  /\ runs' = [runs EXCEPT ![w].pc = "loop", ![w].cur = ""]
  /\ UNCHANGED <<remote, phase, queue, cycles, edits, last, clean,
                 mentionPub, cache, served, snap, rec, web, bus, now,
                 parse, postPub>>

\* the request failed: the except branches of the loop
RunFail(w) ==
  /\ runs[w].pc = "fetching"
  /\ runs' = [runs EXCEPT ![w].pc = "loop", ![w].cur = ""]
  /\ UNCHANGED <<db, remote, phase, queue, cycles, edits, last, clean,
                 mentionPub, cache, served, snap, rec, web, bus, now,
                 parse, postPub>>

\* the loop is over and the task returns
RunEnd(w) ==
  /\ runs[w].pc = "loop"
  /\ runs[w].queue = << >>
  /\ runs' = [runs EXCEPT ![w].pc = "off"]
  /\ cache' = NoCache
  /\ UNCHANGED <<db, remote, phase, queue, cycles, edits, last, clean,
                 mentionPub, served, snap, rec, web, bus, now, parse,
                 postPub>>

NextOverlap ==
  \/ \E w \in Workers : RunStart(w)
  \/ \E w \in Workers : RunFetch(w)
  \/ \E w \in Workers : RunWrite(w)
  \/ \E w \in Workers : RunFail(w)
  \/ \E w \in Workers : RunEnd(w)

SpecOverlap == InitTag /\ [][NextOverlap]_vars

\* C16: no two executions of scan_feeds are processing the same feed url at
\* the same time
C16_SingleFlightPerFeed ==
  \A v, w \in Workers :
    (v # w /\ runs[v].pc = "fetching" /\ runs[w].pc = "fetching")
      => runs[v].cur # runs[w].cur

----------------------------------------------------------------------------
(* app/feeds/parser.py: _handle_feed_redirect *)

HasFeed(d, u) == \E k \in 1..Len(d.feeds) : d.feeds[k].url = u

\* a primary key keeps its row while the natural key changes
MoveKey(k, from, to) == IF k = from THEN to ELSE k

\* Follow rows whose followed is old: re-pointed to new, or deleted when the
\* follower already follows new
MigrateFollowed(d, old, new) ==
  LET mine == {f \in d.follows : f.followed = old}
      moved == {[f EXCEPT !.followed = new] :
                  f \in {g \in mine :
                           ~\E e \in d.follows : /\ e.follower = g.follower
                                                 /\ e.followed = new}}
  IN [d EXCEPT !.follows = (@ \ mine) \cup moved]

\* Follow rows whose follower is old, likewise
MigrateFollower(d, old, new) ==
  LET mine == {f \in d.follows : f.follower = old}
      moved == {[f EXCEPT !.follower = new] :
                  f \in {g \in mine :
                           ~\E e \in d.follows : /\ e.follower = new
                                                 /\ e.followed = g.followed}}
  IN [d EXCEPT !.follows = (@ \ mine) \cup moved]

\* the bulk UPDATE breaks unique_together (post, mentioned_profile) when a
\* post mentions both profiles
MentionsCollide(d, old, new) ==
  \E m \in d.mentions, n \in d.mentions :
     m.mentioned = old /\ n.mentioned = new /\ m.post = n.post

MoveMentions(d, old, new) ==
  [d EXCEPT !.mentions =
     {[m EXCEPT !.mentioned = MoveKey(@, old, new)] : m \in @}]

\* old_post.profile = new_profile; old_post.save()
RelocatePost(d, old, new, i) ==
  LET from == <<old, i>>
      to == <<new, i>>
  IN [d EXCEPT
        !.posts = {IF PostKey(p) = from THEN [p EXCEPT !.profile = new] ELSE p
                     : p \in @},
        !.created = [k \in 1..Len(@) |-> MoveKey(@[k], from, to)],
        !.mentions = {[m EXCEPT !.post = MoveKey(@, from, to)] : m \in @},
        !.votes = {[v EXCEPT !.post = MoveKey(@, from, to),
                             !.poll_post = MoveKey(@, from, to)] : v \in @}]

\* the duplicate branch: votes received by the old post go to the existing
\* post unless the voter already voted there, then the old post is deleted
DropDuplicatePost(d, old, new, i) ==
  LET from == <<old, i>>
      to == <<new, i>>
      mine == {v \in d.votes : v.poll_post = from}
      moved == {[v EXCEPT !.poll_post = to] :
                  v \in {w \in mine :
                           ~\E e \in d.votes : /\ e.post = w.post
                                               /\ e.poll_post = to}}
  IN DeletePosts([d EXCEPT !.votes = (@ \ mine) \cup moved], {from})

\* "for old_post in old_posts", over the given list of post ids
RECURSIVE MigratePosts(_, _, _, _)
MigratePosts(d, old, new, ids) ==
  IF ids = << >> THEN d
  ELSE LET i == Head(ids)
           d1 == IF ~HasPost(d, old, i) THEN d
                 ELSE IF HasPost(d, new, i)
                      THEN DropDuplicatePost(d, old, new, i)
                      ELSE RelocatePost(d, old, new, i)
       IN MigratePosts(d1, old, new, Tail(ids))

RECURSIVE Reverse(_)
Reverse(q) == IF q = << >> THEN << >> ELSE Append(Reverse(Tail(q)), Head(q))

\* Post.Meta.ordering is -created_at: the ids of old's posts, newest first
OldPostIds(d, old) ==
  LET ks == SelectSeq(Reverse(d.created), LAMBDA k : k[1] = old)
  IN [n \in 1..Len(ks) |-> ks[n][2]]

\* Profile.delete(): CASCADE to its follows, its posts and what hangs on
\* them, and the mentions of it
DeleteProfile(d, u) ==
  LET d1 == DeletePosts(d, {PostKey(p) : p \in {q \in d.posts : q.profile = u}})
  IN [d1 EXCEPT !.profiles = {p \in @ : p.feed # u},
                !.follows = {f \in @ : f.follower # u /\ f.followed # u},
                !.mentions = {m \in @ : m.mentioned # u}]

\* Feed.delete() of the row that .first() returned
DeleteFeed(d, u) ==
  LET k == CHOOSE n \in 1..Len(d.feeds) :
             d.feeds[n].url = u /\ \A j \in 1..(n - 1) : d.feeds[j].url # u
  IN [d EXCEPT !.feeds = SubSeq(@, 1, k - 1) \o SubSeq(@, k + 1, Len(@))]

\* RenameFeed that registers the new url in a row of its own
RenameFeedMut(d, old, new) ==
  [d EXCEPT !.feeds = Append(@, FeedRow(new))]

\* old_feed.url = new_url; old_feed.save()
RenameFeed(d, old, new) ==
  LET k == CHOOSE n \in 1..Len(d.feeds) :
             d.feeds[n].url = old /\ \A j \in 1..(n - 1) : d.feeds[j].url # old
  IN [d EXCEPT !.feeds[k].url = new]

\* the feed url of a profile row changes; the rows that point at the profile
\* follow it
RenameProfile(d, old, new) ==
  [d EXCEPT
     !.profiles = {[p EXCEPT !.feed = MoveKey(@, old, new)] : p \in @},
     !.posts = {[p EXCEPT !.profile = MoveKey(@, old, new)] : p \in @},
     !.created = [k \in 1..Len(@) |-> <<MoveKey(@[k][1], old, new), @[k][2]>>],
     !.mentions = {[m EXCEPT !.mentioned = MoveKey(@, old, new),
                             !.post = <<MoveKey(@[1], old, new), @[2]>>]
                     : m \in @},
     !.votes = {[v EXCEPT !.post = <<MoveKey(@[1], old, new), @[2]>>,
                          !.poll_post = <<MoveKey(@[1], old, new), @[2]>>]
                  : v \in @},
     !.follows = {[f EXCEPT !.follower = MoveKey(@, old, new),
                            !.followed = MoveKey(@, old, new)] : f \in @}]

\* where the handler goes after the two Feed lookups
RecEntry(d, old, new) ==
  IF HasFeed(d, old) /\ HasFeed(d, new) THEN "profiles"
  ELSE IF HasFeed(d, old) THEN "renfeed"
  ELSE "idle"

\* one statement group of the handler inside transaction.atomic(), applied to
\* the transaction's view t of the store: the next position, the new view,
\* and whether the statement raised
RecStatement(pc, t, old, new) ==
  CASE pc = "profiles" ->
         [pc |-> IF HasProfile(t, old) /\ HasProfile(t, new) THEN "followed"
                 ELSE IF HasProfile(t, old) THEN "relabel"
                 ELSE "delfeed",
          tx |-> t, raised |-> FALSE]
    [] pc = "followed" ->
         [pc |-> "follower", tx |-> MigrateFollowed(t, old, new),
          raised |-> FALSE]
    [] pc = "follower" ->
         [pc |-> "mentions", tx |-> MigrateFollower(t, old, new),
          raised |-> FALSE]
    [] pc = "mentions" ->
         IF MentionsCollide(t, old, new)
         THEN [pc |-> "mentions", tx |-> t, raised |-> TRUE]
         ELSE [pc |-> "posts", tx |-> MoveMentions(t, old, new),
               raised |-> FALSE]
    [] pc = "posts" ->
         [pc |-> "delprofile",
          tx |-> MigratePosts(t, old, new, OldPostIds(t, old)),
          raised |-> FALSE]
    [] pc = "delprofile" ->
         [pc |-> "delfeed", tx |-> DeleteProfile(t, old), raised |-> FALSE]
    [] pc = "relabel" ->
         [pc |-> "delfeed", tx |-> RenameProfile(t, old, new),
          raised |-> FALSE]
    [] pc = "delfeed" ->
         [pc |-> "commit", tx |-> DeleteFeed(t, old), raised |-> FALSE]
    [] pc = "renfeed" ->
         [pc |-> "renprofiles", tx |-> RenameFeed(t, old, new),
          raised |-> FALSE]
    [] pc = "renprofiles" ->
         IF HasProfile(t, old) /\ HasProfile(t, new)
         THEN [pc |-> "renprofiles", tx |-> t, raised |-> TRUE]
         ELSE [pc |-> "commit", tx |-> RenameProfile(t, old, new),
               raised |-> FALSE]
    [] OTHER -> [pc |-> pc, tx |-> t, raised |-> FALSE]

\* leaving transaction.atomic() on an exception: the store keeps d, the
\* changes made in the transaction's view t are gone
RollbackMut(d, t) == t

Rollback(d, t) == d

\* the handler run from position pc to its end without interruption
RECURSIVE RunRedirect(_, _, _, _, _)
RunRedirect(d, pc, t, old, new) ==
  IF pc = "idle" THEN d
  ELSE IF pc = "commit" THEN t
  ELSE LET r == RecStatement(pc, t, old, new)
       IN IF r.raised THEN Rollback(d, r.tx)
          ELSE RunRedirect(d, r.pc, r.tx, old, new)

HandleFeedRedirect(d, old, new) ==
  RunRedirect(d, RecEntry(d, old, new), d, old, new)

----------------------------------------------------------------------------
(* Specification SpecRec: the redirect handler, statement by statement,    *)
(* on stores that hold an old feed FA, a new feed FB and a third feed FC   *)

StoredPost(u, i, c) ==
  [profile |-> u, post_id |-> i, content |-> c, reply_to |-> NoRef,
   mood |-> "", include |-> NoRef, poll_end |-> "", poll_options |-> << >>]

StoredProfile(u) ==
  [feed |-> u, title |-> "n1", version |-> ContentHash(EmptyDoc),
   links |-> << >>]

KeysOf(u, ids) ==
  LET q == SelectSeq(<<"t1", "t2">>, LAMBDA i : i \in ids)
  IN [n \in 1..Len(q) |-> <<u, q[n]>>]

FollowSets ==
  { {},
    {[follower |-> FC, followed |-> FA]},
    {[follower |-> FC, followed |-> FA], [follower |-> FC, followed |-> FB]},
    {[follower |-> FA, followed |-> FC], [follower |-> FB, followed |-> FC],
     [follower |-> FA, followed |-> FB], [follower |-> FA, followed |-> FA]} }

\* the stores the handler is run on
RecStores ==
  { [feeds |-> FeedRows(fs),
     profiles |-> {StoredProfile(u) : u \in ps},
     posts |-> {StoredPost(FC, "t1", "c1")}
                 \cup {StoredPost(FA, i, "c1") : i \in oi}
                 \cup {StoredPost(FB, i, "c2") : i \in ni},
     created |-> <<<<FC, "t1">>>> \o KeysOf(FA, oi) \o KeysOf(FB, ni),
     mentions |-> {[post |-> <<FC, "t1">>, mentioned |-> u, nickname |-> "a"]
                     : u \in ms},
     votes |-> {[post |-> <<FC, "t1">>, poll_post |-> k, poll_option |-> "o1"]
                  : k \in vs}
               \cup (IF iv THEN {[post |-> <<FA, "t2">>,
                                  poll_post |-> <<FA, "t1">>,
                                  poll_option |-> "o2"]}
                     ELSE {}),
     follows |-> fl] :
       fs \in {<<FA, FB, FC>>, <<FA, FC>>},
       ps \in {{FA, FB, FC}, {FA, FC}, {FB, FC}},
       oi \in SUBSET {"t1", "t2"},
       ni \in SUBSET {"t1"},
       ms \in SUBSET {FA, FB},
       vs \in SUBSET {<<FA, "t1">>, <<FB, "t1">>},
       iv \in BOOLEAN,
       fl \in FollowSets }

\* foreign keys point at rows that exist
WellFormed(d) ==
  /\ \A p \in d.posts : HasProfile(d, p.profile)
  /\ \A m \in d.mentions : HasProfile(d, m.mentioned)
  /\ \A v \in d.votes :
       HasPost(d, v.post[1], v.post[2])
       /\ HasPost(d, v.poll_post[1], v.poll_post[2])
  /\ \A f \in d.follows : HasProfile(d, f.follower) /\ HasProfile(d, f.followed)

InitRec ==
  /\ db \in {d \in RecStores : WellFormed(d)}
  /\ remote = [u \in URLs |-> EmptyDoc]
  /\ phase = "idle"
  /\ queue = << >>
  /\ cycles = 0
  /\ edits = 0
  /\ last = NoStep
  /\ clean = [u \in URLs |-> FALSE]
  /\ mentionPub = EmptyBag
  /\ cache = NoCache
  /\ served = {}
  /\ snap = EmptyDb(<< >>)
  /\ rec = RecIdle
  /\ web = WebIdle
  /\ runs = NoRuns
  /\ bus = NoBus
  /\ now = 1
  /\ parse = Unparsed
  /\ postPub = EmptyBag

scanVars == <<remote, phase, queue, cycles, edits, last, clean, mentionPub,
              cache, served, snap, web, runs, bus, now, parse, postPub>>

\* _handle_feed_redirect(FA, FB) is called: the two Feed lookups
RecStart ==
  /\ rec.pc = "idle"
  /\ rec.calls < MaxReconciles
  /\ LET e == RecEntry(db, FA, FB)
     IN rec' = [pc |-> e, old |-> FA, new |-> FB,
                tx |-> IF e = "idle" THEN EmptyDb(<< >>) ELSE db,
                pre |-> db, lost |-> EmptyDb(<< >>),
                outcome |-> IF e = "idle" THEN "noop" ELSE "running",
                prev |-> rec.outcome, calls |-> rec.calls + 1]
  /\ UNCHANGED db
  /\ UNCHANGED scanVars

\* the next statement group runs inside the transaction; an exception
\* leaves the atomic block and is logged by the outer except
RecStep ==
  /\ rec.pc \notin {"idle", "commit"}
  /\ LET r == RecStatement(rec.pc, rec.tx, rec.old, rec.new)
     IN IF r.raised
        THEN /\ db' = Rollback(db, r.tx)
             /\ rec' = [rec EXCEPT !.pc = "idle", !.tx = EmptyDb(<< >>),
                                   !.lost = r.tx, !.outcome = "raised"]
        ELSE /\ db' = db
             /\ rec' = [rec EXCEPT !.pc = r.pc, !.tx = r.tx]
  /\ UNCHANGED scanVars

\* the atomic block is left normally
RecCommit ==
  /\ rec.pc = "commit"
  /\ db' = rec.tx
  /\ rec' = [rec EXCEPT !.pc = "idle", !.tx = EmptyDb(<< >>),
                        !.outcome = "done"]
  /\ UNCHANGED scanVars

\* the worker dies or loses its connection inside the atomic block
RecCrash ==
  /\ rec.pc # "idle"
  /\ db' = Rollback(db, rec.tx)
  /\ rec' = [rec EXCEPT !.pc = "idle", !.tx = EmptyDb(<< >>),
                        !.lost = rec.tx, !.outcome = "crashed"]
  /\ UNCHANGED scanVars

NextRec ==
  \/ RecStart
  \/ RecStep
  \/ RecCommit
  \/ RecCrash

SpecRec == InitRec /\ [][NextRec]_vars

----------------------------------------------------------------------------
(* Properties of the redirect handler *)

\* the last call found both feeds and both profiles and was not interrupted
MergeEnded ==
  /\ rec.pc = "idle"
  /\ rec.outcome \in {"done", "raised"}
  /\ HasFeed(rec.pre, rec.old) /\ HasFeed(rec.pre, rec.new)
  /\ HasProfile(rec.pre, rec.old) /\ HasProfile(rec.pre, rec.new)

\* C8: when both profiles own a post with the same post_id, the merge leaves
\* that post_id to the new profile only, the poll votes the old post had
\* received point at the surviving post, and no uniqueness violation is
\* raised
C8_DuplicatePostMerged ==
  MergeEnded =>
    \A i \in PostIdsOf(rec.pre, rec.old) \cap PostIdsOf(rec.pre, rec.new) :
      /\ rec.outcome # "raised"
      /\ HasPost(db, rec.new, i)
      /\ ~HasPost(db, rec.old, i)
      /\ \A v \in db.votes : v.poll_post # <<rec.old, i>>
      /\ \A v \in rec.pre.votes :
           (v.poll_post = <<rec.old, i>> /\ v.post[1] # rec.old)
             => \E w \in db.votes :
                  w.post = v.post /\ w.poll_post = <<rec.new, i>>

\* C9: after the merge no profile is left under the old url, no mention
\* targets it, and every post that mentioned the old profile mentions the
\* new one
C9_MentionsMerged ==
  MergeEnded =>
    /\ ~HasProfile(db, rec.old)
    /\ \A m \in db.mentions : m.mentioned # rec.old
    /\ \A m \in rec.pre.mentions :
         (m.mentioned = rec.old /\ m.post[1] \notin {rec.old, rec.new})
           => \E n \in db.mentions :
                n.post = m.post /\ n.mentioned = rec.new

\* C10: whatever happens during a call of the handler, the store is the one
\* the call started from or the one the uninterrupted call produces
C10_AllOrNothing ==
  rec.calls > 0 =>
    \/ db = rec.pre
    \/ db = HandleFeedRedirect(rec.pre, rec.old, rec.new)

\* the handler was interrupted after it had migrated rows of a merge, and
\* the store is the one from before the call
C10_Witness ==
  /\ rec.pc = "idle"
  /\ rec.outcome = "crashed"
  /\ rec.lost # rec.pre
  /\ rec.lost.posts # rec.pre.posts
  /\ HasProfile(rec.pre, rec.old) /\ HasProfile(rec.pre, rec.new)
  /\ db = rec.pre
  /\ db # HandleFeedRedirect(rec.pre, rec.old, rec.new)

\* a call that ran to its end: it committed, raised into the outer except,
\* or found nothing to do
Uninterrupted(o) == o \in {"done", "raised", "noop"}

Repointed(f, old, new) ==
  [follower |-> MoveKey(f.follower, old, new),
   followed |-> MoveKey(f.followed, old, new)]

\* C12: after the merge of two profiles the Follow edges are exactly the
\* edges from before the call with the old profile replaced by the new one,
\* an edge that would repeat an existing pair being dropped
C12_FollowsMerged ==
  MergeEnded =>
    /\ \A f \in db.follows : f.follower # rec.old /\ f.followed # rec.old
    /\ db.follows = {Repointed(f, rec.old, rec.new) : f \in rec.pre.follows}

\* the last call found both urls registered and was not interrupted
BothRegisteredEnded ==
  /\ rec.pc = "idle"
  /\ rec.outcome \in {"done", "raised"}
  /\ HasFeed(rec.pre, rec.old) /\ HasFeed(rec.pre, rec.new)

\* C13: after a call that found both urls registered, no Feed and no Profile
\* is left under the old url, and every post of the old profile whose
\* post_id the new profile did not have belongs to the new profile
C13_OldDrained ==
  BothRegisteredEnded =>
    /\ ~HasFeed(db, rec.old)
    /\ ~HasProfile(db, rec.old)
    /\ \A i \in PostIdsOf(rec.pre, rec.old) \ PostIdsOf(rec.pre, rec.new) :
         /\ HasPost(db, rec.new, i)
         /\ ~HasPost(db, rec.old, i)
         /\ PostOf(db, rec.new, i).content
              = PostOf(rec.pre, rec.old, i).content

----------------------------------------------------------------------------
(* Properties of the per-feed scan step *)

ParsedIds(doc) == {doc.posts[k].id : k \in 1..Len(doc.posts)} \ {""}
ParsedPost(doc, i) ==
  doc.posts[CHOOSE k \in 1..Len(doc.posts) : doc.posts[k].id = i]

\* number of publish_notification calls of the last step for post i of the
\* scanned feed whose type is in ts
CallsFor(i, ts) ==
  Cardinality({k \in 1..Len(last.calls) :
                 /\ last.calls[k].post = <<last.feed, i>>
                 /\ last.calls[k].type \in ts})

\* C2: a parsed post that is already stored under (profile, post_id) gets
\* its mutable fields overwritten by the parse and causes no reply, reaction
\* or boost notification
C2_UpdateOverwritesSilently ==
  last.ok =>
    \A i \in last.updated :
      LET pd == ParsedPost(last.doc, i)
          p == PostOf(db, last.feed, i)
      IN /\ p.content = pd.content
         /\ p.reply_to = pd.reply_to
         /\ p.mood = pd.mood
         /\ p.include = pd.include
         /\ CallsFor(i, {"reply", "reaction", "boost"}) = 0

\* an update turned a stored plain post into a reply
C2_Witness ==
  /\ last.ok
  /\ \E i \in last.updated :
       /\ PostOf(last.pre, last.feed, i).reply_to = NoRef
       /\ Len(PostOf(db, last.feed, i).reply_to) = 2

\* C3 as stated: every created post with a reply_to or an include causes
\* exactly one notification, and every created mention exactly one
C3_ExactlyOneEventPerCreation ==
  last.ok =>
    /\ \A i \in last.created :
         LET p == PostOf(db, last.feed, i)
         IN (p.reply_to # NoRef \/ p.include # NoRef)
              => CallsFor(i, {"reply", "reaction", "boost"}) = 1
    /\ \A nm \in last.newMentions :
         Cardinality({k \in 1..Len(last.calls) :
                        /\ last.calls[k].type = "mention"
                        /\ last.calls[k].post = <<last.feed, nm[1]>>
                        /\ last.calls[k].target = nm[2]}) = 1

\* C3 amended: a created post causes one reply-or-reaction call exactly when
\* its reply_to has two "#"-parts and one boost call exactly when its include
\* has two "#"-parts; a created mention causes exactly one mention call; the
\* calls reach the channel exactly when Redis is reachable
C3_EventsPerCreation ==
  last.ok =>
    /\ \A i \in last.created :
         LET p == PostOf(db, last.feed, i)
         IN /\ CallsFor(i, {"reply", "reaction"})
                 = (IF Len(p.reply_to) = 2 THEN 1 ELSE 0)
            /\ CallsFor(i, {"boost"})
                 = (IF Len(p.include) = 2 THEN 1 ELSE 0)
            /\ CallsFor(i, {"reaction"}) = 1 => p.mood # ""
    /\ \A nm \in last.newMentions :
         Cardinality({k \in 1..Len(last.calls) :
                        /\ last.calls[k].type = "mention"
                        /\ last.calls[k].post = <<last.feed, nm[1]>>
                        /\ last.calls[k].target = nm[2]}) = 1
    /\ last.sent = (IF last.up THEN last.calls ELSE << >>)

\* a post was created that is a reply and a boost at once
C3_Witness ==
  /\ last.ok
  /\ last.up
  /\ \E i \in last.created :
       /\ Len(PostOf(db, last.feed, i).reply_to) = 2
       /\ Len(PostOf(db, last.feed, i).include) = 2
       /\ CallsFor(i, {"reply", "reaction", "boost"}) = 2

\* C4: a created post that records a poll vote causes no reply notification
C4_VoteIsNoReply ==
  last.ok =>
    \A i \in last.created :
      (\E v \in db.votes : v.post = <<last.feed, i>>)
        => CallsFor(i, {"reply"}) = 0

\* C5: while a post stays in its feed, at most one mention event is
\* published for it and a given mentioned profile
C5_MentionPublishedOnce ==
  \A k \in DOMAIN mentionPub : mentionPub[k] <= 1

\* a post whose mention was announced has been edited (content and the
\* nickname of the mention) and scanned again
C5_Witness ==
  /\ last.ok
  /\ \E i \in last.updated :
       /\ <<last.feed, i, FB>> \in DOMAIN mentionPub
       /\ \E m \in db.mentions :
            /\ m.post = <<last.feed, i>>
            /\ m.mentioned = FB
            /\ \E k \in 1..Len(ParsedPost(last.doc, i).mentions) :
                 ParsedPost(last.doc, i).mentions[k].nickname # m.nickname
       /\ PostOf(last.pre, last.feed, i).content
            # PostOf(db, last.feed, i).content

\* C6 as stated: a second scan of unchanged content writes no row and
\* publishes nothing
C6_ResyncWritesNothing ==
  (last.ok /\ last.wasClean) => (last.wrote = {} /\ last.calls = << >>)

\* C6 amended: a second scan of a feed, with its document and the store
\* unchanged since the first, publishes nothing, leaves the profile row
\* alone, creates and deletes no post and creates no mention; apart from
\* poll votes the stored rows keep their values
C6_ResyncQuiet ==
  (last.ok /\ last.wasClean) =>
    /\ last.calls = << >>
    /\ last.created = {}
    /\ last.wrote \cap {"profile.create", "profile.save", "post.create",
                        "post.delete", "mention.create"} = {}
    /\ [db EXCEPT !.votes = {}] = [last.pre EXCEPT !.votes = {}]

\* a second scan of unchanged content re-saved a post
C6_Witness ==
  /\ last.ok
  /\ last.wasClean
  /\ last.updated # {}
  /\ "post.save" \in last.wrote

\* C7: a scan deletes exactly the stored posts of the profile that the parse
\* lacks, with the mentions and poll votes attached to them, and nothing else
C7_DeletesExactlyMissing ==
  (last.ok /\ ~last.aborted) =>
    LET u == last.feed
        before == PostIdsOf(last.pre, u)
        parsed == ParsedIds(last.doc)
        gone == {<<u, i>> : i \in before \ parsed}
    IN /\ before \ PostIdsOf(db, u) = before \ parsed
       /\ PostIdsOf(db, u) = parsed
       /\ \A p \in last.pre.posts : p.profile # u => p \in db.posts
       /\ \A m \in db.mentions : m.post \notin gone
       /\ \A v \in db.votes : v.post \notin gone /\ v.poll_post \notin gone
       /\ \A m \in last.pre.mentions : m.post \notin gone => m \in db.mentions
       /\ \A v \in last.pre.votes :
            (v.post \notin gone /\ v.poll_post \notin gone)
              => \E w \in db.votes :
                   w.post = v.post /\ w.poll_post = v.poll_post

\* of the stored posts t1, t2, t3 the scan removed t2, which had poll
\* options, a mention and poll votes
C7_Witness ==
  /\ last.ok
  /\ PostIdsOf(last.pre, FA) = {"t1", "t2", "t3"}
  /\ PostIdsOf(db, FA) = {"t1", "t3"}
  /\ last.feed = FA
  /\ PostOf(last.pre, FA, "t2").poll_options # << >>
  /\ \E m \in last.pre.mentions : m.post = <<FA, "t2">>
  /\ \E v \in last.pre.votes : v.post = <<FA, "t2">>
  /\ \E v \in last.pre.votes : v.poll_post = <<FA, "t2">>
  /\ \E v \in db.votes : v.post[1] = FA

\* the last step as it would have run with Redis in the other condition
OtherRedis == SyncFeed(last.pre, last.feed, last.doc, ~last.up)

C26_FeedProfileOneToOne ==
  /\ \A p \in db.profiles : HasFeed(db, p.feed)
  /\ \A p, q \in db.profiles : p.feed = q.feed => p = q

----------------------------------------------------------------------------
(* Specification SpecDisc: the two discovery tasks, each on a worker of    *)
(* the consumer, adding the feeds they find.                               *)

\* the url lists a discovery run may have found
Found == {<<FC>>, <<FA, FC>>, <<FB, FA>>}

\* fa is registered, fb and fc are not
InitDisc ==
  /\ db = EmptyDb(<<FA>>)
  /\ remote = [u \in URLs |-> EmptyDoc]
  /\ AtRest

\* a discovery task starts on a free worker with the urls it has collected
DiscStart(w) ==
  /\ runs[w].pc = "off"
  /\ \E q \in Found : runs' = [runs EXCEPT ![w] = [pc |-> "disc", queue |-> q,
                                                    cur |-> ""]]
  /\ UNCHANGED <<db, remote, phase, queue, cycles, edits, last, clean,
                 mentionPub, cache, served, snap, rec, web, bus, now,
                 parse, postPub>>

\* "if Feed.objects.filter(url=feed_url).exists(): continue", and for a url
\* without a row the start of validate_org_social_feed
DiscCheck(w) ==
  /\ runs[w].pc = "disc"
  /\ runs[w].queue # << >>
  /\ LET u == Head(runs[w].queue)
     IN IF HasFeed(db, u)
        THEN runs' = [runs EXCEPT ![w].queue = Tail(@)]
        ELSE runs' = [runs EXCEPT ![w].pc = "validating", ![w].cur = u]
  /\ UNCHANGED <<db, remote, phase, queue, cycles, edits, last, clean,
                 mentionPub, cache, served, snap, rec, web, bus, now,
                 parse, postPub>>

\* validate_org_social_feed has returned: Feed.objects.create(url=feed_url)
\* when the feed is valid
DiscCreate(w) ==
  /\ runs[w].pc = "validating"
  /\ \E valid \in BOOLEAN :
       db' = IF valid
             THEN [db EXCEPT !.feeds = Append(@, FeedRow(runs[w].cur))]
             ELSE db
  /\ runs' = [runs EXCEPT ![w].pc = "disc", ![w].queue = Tail(@),
                          ![w].cur = ""]
  /\ UNCHANGED <<remote, phase, queue, cycles, edits, last, clean,
                 mentionPub, cache, served, snap, rec, web, bus, now,
                 parse, postPub>>

\* the task returns
DiscEnd(w) ==
  /\ runs[w].pc = "disc"
  /\ runs[w].queue = << >>
  /\ runs' = [runs EXCEPT ![w].pc = "off"]
  /\ UNCHANGED <<db, remote, phase, queue, cycles, edits, last, clean,
                 mentionPub, cache, served, snap, rec, web, bus, now,
                 parse, postPub>>

NextDisc ==
  \E w \in Workers :
    \/ DiscStart(w)
    \/ DiscCheck(w)
    \/ DiscCreate(w)
    \/ DiscEnd(w)

SpecDisc == InitDisc /\ [][NextDisc]_vars

\* C27: no two Feed rows have the same url
C27_FeedUrlsUnique ==
  \A i, j \in 1..Len(db.feeds) :
    db.feeds[i].url = db.feeds[j].url => i = j

----------------------------------------------------------------------------
(* Specification SpecEnd: cycles over stores with no feed, one feed or two *)
(* feeds, in which any fetch may fail, and which end statement by          *)
(* statement.                                                              *)

InitEnd ==
  /\ db \in {EmptyDb(<< >>), EmptyDb(<<FA>>), EmptyDb(<<FA, FB>>)}
  /\ remote = [u \in URLs |->
                 IF u = FA THEN DocOf(<<WithId("t1", PlainBody)>>)
                 ELSE IF u = FB
                      THEN DocOf(<<WithId("t1", ReplyBody(Ref(FA, "t1")))>>)
                      ELSE EmptyDoc]
  /\ AtRest

\* scan_feeds with an empty Feed table: "if total_feeds == 0: return"
EmptyCycle ==
  /\ phase = "idle"
  /\ cycles < MaxCycles
  /\ Len(db.feeds) = 0
  /\ cycles' = cycles + 1
  /\ UNCHANGED <<db, remote, phase, queue, edits, last, clean, mentionPub,
                 cache, served, snap, rec, web, runs, bus, now, parse,
                 postPub>>

NextEnd ==
  \/ StartCycle
  \/ EmptyCycle
  \/ SyncOne
  \/ SyncFail
  \/ FinishStep
  \/ TagView
  \/ TagHeaders

SpecEnd == InitEnd /\ [][NextEnd]_vars

\* C31: the global ETag has been bumped once for every cycle that has run
\* to its end and not at all for the running one before its last feed is
\* processed, and the step that ends a cycle leaves the response caches
\* empty
C31_BumpOncePerCycle ==
  /\ [](phase = "idle" => web.etag = cycles)
  /\ []((phase = "scanning" /\ queue # << >>) => web.etag = cycles - 1)
  /\ [][(phase = "scanning" /\ phase' = "idle") => cache' = NoCache]_vars

----------------------------------------------------------------------------
(* Specification SpecPoll: scan cycles over a feed whose author rewrites   *)
(* the option list of a poll between two cycles                            *)

\* versions of a poll post: two option lists that share an option, and the
\* post with its option list taken out
PollBodies ==
  { PollBody,
    Body("c1", NoRef, "", NoRef, "e1", "", <<"o3", "o1">>, << >>),
    Body("c1", NoRef, "", NoRef, "e1", "", << >>, << >>) }

InitPoll ==
  /\ db = EmptyDb(<<FA>>)
  /\ remote \in {[u \in URLs |-> IF u = FA THEN DocOf(<<WithId("t1", b)>>)
                                  ELSE EmptyDoc] : b \in PollBodies}
  /\ AtRest

EditPoll ==
  /\ phase = "idle"
  /\ edits < MaxEdits
  /\ \E i \in PostIds, b \in PollBodies :
       /\ remote' = [remote EXCEPT ![FA] = PutPost(@, i, b)]
       /\ remote'[FA] # remote[FA]
       /\ clean' = [clean EXCEPT ![FA] = FALSE]
  /\ edits' = edits + 1
  /\ UNCHANGED <<db, phase, queue, cycles, last, mentionPub,
                 cache, served, snap, rec, web, runs, bus, now, parse,
                 postPub>>

NextPoll ==
  \/ StartCycle
  \/ SyncOne
  \/ FinishCycle
  \/ EditPoll

SpecPoll == InitPoll /\ [][NextPoll]_vars

\* C32: after a step that went through, every post of the parsed document
\* is stored with the option list of the parse, in its order
C32_PollOptionsReplaced ==
  (last.ok /\ ~last.aborted) =>
    \A k \in 1..Len(last.doc.posts) :
      PostOf(db, last.feed, last.doc.posts[k].id).poll_options
        = last.doc.posts[k].poll_options

----------------------------------------------------------------------------
(* Specification SpecRepub: the cycles and edits of Spec, starting from    *)
(* the relay as a first cycle has left it: fa holds a post that replies to *)
(* the poll of fb and boosts it, and both events have been published.      *)

FirstDoc ==
  DocOf(<<WithId("t1", Body("c1", Ref(FB, "t1"), "", Ref(FB, "t1"), "", "",
                            << >>, << >>))>>)

\* the first cycle: fb, then fa
FirstCycle ==
  SyncFeed(SyncFeed(EmptyDb(<<FB, FA>>), FB, PollDoc, TRUE).db,
           FA, FirstDoc, TRUE)

InitRepub ==
  /\ db = FirstCycle.db
  /\ remote = [u \in URLs |-> IF u = FB THEN PollDoc
                               ELSE IF u = FA THEN FirstDoc ELSE EmptyDoc]
  /\ phase = "idle"
  /\ queue = << >>
  /\ cycles = 0
  /\ edits = 0
  /\ last = NoStep
  /\ clean = [u \in URLs |-> FALSE]
  /\ mentionPub = EmptyBag
  /\ cache = NoCache
  /\ served = {}
  /\ snap = EmptyDb(<< >>)
  /\ rec = RecIdle
  /\ web = WebIdle
  /\ runs = NoRuns
  /\ bus = NoBus
  /\ now = 1
  /\ parse = Unparsed
  /\ postPub = PostEventKeys(FirstCycle.calls)

SpecRepub == InitRepub /\ [][Next]_vars

\* C34: no reply, reaction or boost event has been published twice for the
\* same post reference
C34_PostEventOnce ==
  \A k \in DOMAIN postPub : postPub[k] <= 1

----------------------------------------------------------------------------
(* Specification SpecRace: two workers execute the loop body for fa at the *)
(* same time, statement group by statement group, while the author adds    *)
(* posts to the document.  Each get_or_create is one step: the unique      *)
(* constraints of Post and Mention make it atomic.                         *)

\* a worker that is not in the loop body
\*   doc: the document it fetched, k: the post it is at, existing: its
\*   existing_mentions, done: it has finished a loop body
RaceIdle ==
  [pc |-> "off", queue |-> << >>, cur |-> "", doc |-> EmptyDoc, k |-> 0,
   existing |-> {}, done |-> FALSE]

\* what the author publishes: posts that mention fb, one of them a reply
RaceBodies ==
  { Body("c1", NoRef, "", NoRef, "", "", << >>, <<Ment(<<FB>>, "a")>>),
    Body("c1", Ref(FB, "t1"), "", NoRef, "", "", << >>,
         <<Ment(<<FB>>, "a")>>) }

\* fb has been scanned; fa holds its first post and has not been scanned
InitRace ==
  /\ db = SyncFeed(EmptyDb(<<FB, FA>>), FB, PollDoc, TRUE).db
  /\ remote \in {[u \in URLs |-> IF u = FB THEN PollDoc
                                  ELSE IF u = FA THEN DocOf(<<WithId("t1", b)>>)
                                  ELSE EmptyDoc] : b \in RaceBodies}
  /\ phase = "idle"
  /\ queue = << >>
  /\ cycles = 0
  /\ edits = 0
  /\ last = NoStep
  /\ clean = [u \in URLs |-> FALSE]
  /\ mentionPub = EmptyBag
  /\ cache = NoCache
  /\ served = {}
  /\ snap = EmptyDb(<< >>)
  /\ rec = RecIdle
  /\ web = WebIdle
  /\ runs = [w \in Workers |-> RaceIdle]
  /\ bus = NoBus
  /\ now = 1
  /\ parse = Unparsed
  /\ postPub = EmptyBag

\* the author adds a post to the document of fa
AddPost ==
  /\ edits < MaxEdits
  /\ \E i \in PostIds, b \in RaceBodies :
       /\ ~HasRemotePost(remote[FA], i)
       /\ remote' = [remote EXCEPT ![FA] = PutPost(@, i, b)]
  /\ edits' = edits + 1
  /\ UNCHANGED <<db, phase, queue, cycles, last, clean, mentionPub, cache,
                 served, snap, rec, web, runs, bus, now, parse, postPub>>

\* parse_org_social(feed.url) returns the document to the worker
RaceFetch(w) ==
  /\ runs[w].pc = "off"
  /\ cycles < MaxCycles
  /\ runs' = [runs EXCEPT ![w] = [RaceIdle EXCEPT !.pc = "profile",
                                                  !.cur = FA,
                                                  !.doc = remote[FA]]]
  /\ db' = StampFetch(db, FA)
  /\ cycles' = cycles + 1
  /\ UNCHANGED <<remote, phase, queue, edits, last, clean, mentionPub, cache,
                 served, snap, rec, web, bus, now, parse, postPub>>

\* Profile.objects.get_or_create and the update of the profile
RaceProfile(w) ==
  /\ runs[w].pc = "profile"
  /\ db' = UpsertProfile(StepState(db), FA, runs[w].doc).db
  /\ runs' = [runs EXCEPT ![w].pc = IF runs[w].doc.posts = << >>
                                    THEN "delete" ELSE "post",
                          ![w].k = 1]
  /\ UNCHANGED <<remote, phase, queue, cycles, edits, last, clean,
                 mentionPub, cache, served, snap, rec, web, bus, now, parse,
                 postPub>>

\* Post.objects.get_or_create for the post the worker is at, with the
\* notifications of the created branch, and the poll statements
RacePost(w) ==
  /\ runs[w].pc = "post"
  /\ \E up \in BOOLEAN :
       LET pd == runs[w].doc.posts[runs[w].k]
           s1 == UpsertPost(StepState(db), FA, pd, up)
           s3 == ReplacePollOptions(SetPollEnd(s1, FA, pd), FA, pd)
           st == IF s3.aborted THEN s3 ELSE RecordPollVote(s3, FA, pd)
       IN /\ db' = st.db
          /\ postPub' = postPub (+) PostEventKeys(st.calls)
          /\ runs' = [runs EXCEPT ![w].pc = IF st.aborted THEN "off"
                                            ELSE "existing",
                                  ![w].done = @ \/ st.aborted]
  /\ UNCHANGED <<remote, phase, queue, cycles, edits, last, clean,
                 mentionPub, cache, served, snap, rec, web, bus, now, parse>>

\* existing_mentions = set(post.mentions.values_list(...))
RaceExisting(w) ==
  /\ runs[w].pc = "existing"
  /\ LET pd == runs[w].doc.posts[runs[w].k]
     IN runs' = [runs EXCEPT
                   ![w].pc = "mentions",
                   ![w].existing = {m.mentioned : m \in
                                      {x \in db.mentions :
                                         x.post = <<FA, pd.id>>}}]
  /\ UNCHANGED <<db, remote, phase, queue, cycles, edits, last, clean,
                 mentionPub, cache, served, snap, rec, web, bus, now, parse,
                 postPub>>

\* the loop over mentions_data; a Mention for a post that is no longer
\* stored is refused by the store and the refusal is logged
RaceMentions(w) ==
  /\ runs[w].pc = "mentions"
  /\ \E up \in BOOLEAN :
       LET pd == runs[w].doc.posts[runs[w].k]
           st == IF HasPost(db, FA, pd.id)
                 THEN RecordMentions(StepState(db), FA, pd.id, pd.mentions,
                                     runs[w].existing, up)
                 ELSE StepState(db)
       IN /\ db' = st.db
          /\ mentionPub' = mentionPub (+) MentionKeys(st.calls)
  /\ runs' = [runs EXCEPT ![w].pc = IF runs[w].k < Len(runs[w].doc.posts)
                                    THEN "post" ELSE "delete",
                          ![w].k = @ + 1]
  /\ UNCHANGED <<remote, phase, queue, cycles, edits, last, clean, cache,
                 served, snap, rec, web, bus, now, parse, postPub>>

\* "Detect and remove deleted posts", which ends the loop body
RaceDelete(w) ==
  /\ runs[w].pc = "delete"
  /\ db' = RemoveDeletedPosts(StepState(db), FA, runs[w].doc).db
  /\ runs' = [runs EXCEPT ![w].pc = "off", ![w].done = TRUE]
  /\ UNCHANGED <<remote, phase, queue, cycles, edits, last, clean,
                 mentionPub, cache, served, snap, rec, web, bus, now, parse,
                 postPub>>

NextRace ==
  \/ AddPost
  \/ \E w \in Workers : RaceFetch(w)
  \/ \E w \in Workers : RaceProfile(w)
  \/ \E w \in Workers : RacePost(w)
  \/ \E w \in Workers : RaceExisting(w)
  \/ \E w \in Workers : RaceMentions(w)
  \/ \E w \in Workers : RaceDelete(w)

SpecRace == InitRace /\ [][NextRace]_vars

\* the posts that a worker which has finished had in its document
Observed ==
  UNION {{runs[w].doc.posts[k] : k \in 1..Len(runs[w].doc.posts)} :
           w \in {v \in Workers : runs[v].done}}

\* C35: when no worker is in the loop body, every post that a finished
\* worker observed is stored once together with its mention of fb, and no
\* post event and no mention event has been published twice
C35_OneRecordOneEvent ==
  (\A w \in Workers : runs[w].pc = "off") =>
    /\ \A pd \in Observed :
         /\ Cardinality({p \in db.posts : PostKey(p) = <<FA, pd.id>>}) = 1
         /\ Cardinality({m \in db.mentions : m.post = <<FA, pd.id>>}) = 1
    /\ \A k \in DOMAIN postPub : postPub[k] <= 1
    /\ \A k \in DOMAIN mentionPub : mentionPub[k] <= 1

----------------------------------------------------------------------------
(* Specification SpecRedir: scan cycles in which the server answers the    *)
(* fetch of FA with a redirect that ends at FB.  FB is registered in some  *)
(* of the stores (the handler merges) and not in the others (it renames).  *)

RedirStores ==
  {d \in RecStores : WellFormed(d) /\ d.follows = {} /\ d.votes = {}}

\* what the server holds at the final URL
RedirDocs == {EmptyDoc, DocOf(<<WithId("t1", PlainBody)>>)}

InitRedir ==
  /\ db \in RedirStores
  /\ remote \in {[u \in URLs |-> IF u = FB THEN doc ELSE EmptyDoc] :
                   doc \in RedirDocs}
  /\ AtRest

\* feed.refresh_from_db() after parse_org_social(old) reconciled old with
\* new on the store d and left d1: the url of the row, or DoesNotExist when
\* the row is gone
DoesNotExist == ""

RefreshFromDb(d, d1, old, new) ==
  IF HasFeed(d1, old) THEN old
  ELSE IF RecEntry(d, old, new) = "renfeed" THEN new
  ELSE DoesNotExist

\* one iteration of "for feed in all_feeds" for FA, whose fetch is
\* redirected to FB: the handler, the stamp under the final URL, the
\* refresh of the Feed object, the writes under feed.url
SyncRedirected ==
  /\ phase = "scanning"
  /\ queue # << >>
  /\ Head(queue) = FA
  /\ \E up \in BOOLEAN :
       LET u == Head(queue)
           d1 == HandleFeedRedirect(db, u, FB)
           d2 == StampFetch(d1, FB)
           url == RefreshFromDb(db, d1, u, FB)
           st == StoreParsed(d2, url, remote[FB], up)
       IN IF url = DoesNotExist
          THEN /\ db' = d2
               /\ last' = [NoStep EXCEPT !.feed = u, !.final = FB,
                                         !.doc = remote[FB], !.pre = db]
               /\ clean' = [v \in URLs |-> clean[v] /\ v # u /\ d2 = db]
               /\ UNCHANGED <<mentionPub, postPub>>
          ELSE /\ db' = st.db
               /\ last' = [StepRecord(u, up, remote[FB], db, clean[u], st)
                             EXCEPT !.final = FB]
               /\ clean' = [v \in URLs |->
                              IF v = u THEN ~st.aborted
                              ELSE clean[v] /\ st.db = db]
               /\ mentionPub' = mentionPub (+) MentionKeys(st.calls)
               /\ postPub' = postPub (+) PostEventKeys(st.calls)
  /\ queue' = Tail(queue)
  /\ UNCHANGED <<remote, phase, cycles, edits, cache, served, snap, rec,
                 web, runs, bus, now, parse>>

NextRedir ==
  \/ StartCycle
  \/ SyncRedirected
  \/ SyncOne
  \/ FinishCycle

SpecRedir == InitRedir /\ [][NextRedir]_vars

\* the fetch of the step ended at another URL than the registered one
Redirected == last.final # "" /\ last.final # last.feed

\* C30: after a step whose fetch was redirected from old to new, the store
\* is the store before the step with reconcile(old, new) applied and then
\* the parsed profile and posts upserted under new
C30_RedirectedSyncLandsOnNew ==
  Redirected =>
    /\ last.ok
    /\ db = StoreParsed(StampFetch(HandleFeedRedirect(last.pre, last.feed,
                                                     last.final),
                                   last.final),
                        last.final, last.doc, last.up).db

----------------------------------------------------------------------------
(* Specification SpecForever: cycle after cycle, without end, over a relay *)
(* that has scanned fa, fc and perhaps fb, after which the server of fa    *)
(* answers every fetch with a redirect to fb.  scan_feeds is a periodic    *)
(* task and its loop is sequential code: what can run does run.            *)

\* what fc publishes: a post that mentions nobody, fa, or fa and fb
ForeverDocs ==
  { DocOf(<<WithId("t1", Body("c1", NoRef, "", NoRef, "", "", << >>, ms))>>) :
      ms \in { << >>,
               <<Ment(<<FA>>, "a")>>,
               <<Ment(<<FA>>, "a"), Ment(<<FB>>, "b")>> } }

RECURSIVE FirstScan(_, _, _)
FirstScan(d, us, docs) ==
  IF us = << >> THEN d
  ELSE FirstScan(SyncFeed(d, Head(us), docs[Head(us)], TRUE).db, Tail(us),
                 docs)

InitForever ==
  /\ \E us \in {<<FA, FB, FC>>, <<FA, FC>>}, dc \in ForeverDocs,
        i \in PostIds :
       /\ remote = [u \in URLs |->
                      IF u = FC THEN dc
                      ELSE IF u = FB THEN DocOf(<<WithId(i, PlainBody)>>)
                      ELSE DocOf(<<WithId("t1", PlainBody)>>)]
       /\ db = FirstScan(EmptyDb(us), us, remote)
  /\ AtRest

\* StartCycle at any time: the count of cycles stops at MaxCycles
StartAgain ==
  /\ phase = "idle"
  /\ Len(db.feeds) > 0
  /\ phase' = "scanning"
  /\ queue' = [k \in 1..Len(db.feeds) |-> db.feeds[k].url]
  /\ cycles' = IF cycles < MaxCycles THEN cycles + 1 ELSE cycles
  /\ UNCHANGED <<db, remote, edits, last, clean, mentionPub, cache, served,
                 snap, rec, web, runs, bus, now, parse, postPub>>

\* the iteration for a feed whose server does not redirect
SyncInPlace ==
  /\ queue # << >>
  /\ Head(queue) # FA
  /\ SyncOne

NextForever ==
  \/ StartAgain
  \/ SyncRedirected
  \/ SyncInPlace
  \/ FinishCycle

\* SyncRedirected can run: the loop is at fa
AtRedirected == phase = "scanning" /\ queue # << >> /\ Head(queue) = FA

\* weak fairness of SyncRedirected, with AtRedirected for
\* ENABLED <<SyncRedirected>>_vars
FairRedirected == []<>(~AtRedirected) \/ []<><<SyncRedirected>>_vars

SpecForever ==
  /\ InitForever
  /\ [][NextForever]_vars
  /\ WF_vars(StartAgain)
  /\ FairRedirected
  /\ WF_vars(SyncInPlace)
  /\ WF_vars(FinishCycle)

\* C36: from some cycle on, no Feed and no Profile is stored under the old
\* url
C36_OldUrlDrained ==
  <>[](~HasFeed(db, FA) /\ ~HasProfile(db, FA))

----------------------------------------------------------------------------
(* Specification SpecFix: complete cycles over three feeds whose documents *)
(* never change and whose fetches all succeed.  Feed.objects.all() has no  *)
(* ordering, so each cycle meets the feeds in an order of its own.         *)

\* what fa publishes under t1: nothing of note, a vote on the poll of fb, a
\* vote on its own later post, a mention of fb, a vote that mentions
FixBodies ==
  { PlainBody,
    Body("", Ref(FB, "t1"), "", NoRef, "", "o1", << >>, << >>),
    Body("", Ref(FA, "t2"), "", NoRef, "", "o1", << >>, << >>),
    Body("c1", NoRef, "", NoRef, "", "", << >>, <<Ment(<<FB>>, "a")>>),
    Body("", Ref(FB, "t2"), "", NoRef, "", "o2", << >>,
         <<Ment(<<FC>>, "c"), Ment(<<FC>>, "d")>>) }

FixDocsA ==
  { DocOf(<<WithId("t1", b)>> \o rest) :
      b \in FixBodies, rest \in {<< >>, <<WithId("t2", PollBody)>>} }

\* what fb publishes: nothing, a poll, or a reply to fa that mentions fa
FixDocsB ==
  { EmptyDoc, PollDoc,
    DocOf(<<WithId("t1", Body("c1", Ref(FA, "t1"), "", NoRef, "", "", << >>,
                              <<Ment(<<FA>>, "a")>>))>>) }

\* fc votes on the first post of fa and mentions fb
FixDocC ==
  DocOf(<<WithId("t1", Body("", Ref(FA, "t1"), "", NoRef, "", "o1", << >>,
                            <<Ment(<<FB>>, "b")>>))>>)

\* the documents of an earlier time: fb had two polls, fa voted on the
\* second one and mentioned fb
FixOld ==
  [u \in URLs |->
     IF u = FB THEN DocOf(<<WithId("t1", PollBody), WithId("t2", PollBody)>>)
     ELSE IF u = FA
     THEN DocOf(<<WithId("t1", Body("", Ref(FB, "t2"), "", NoRef, "", "o1",
                                    << >>, <<Ment(<<FB>>, "a")>>))>>)
     ELSE EmptyDoc]

\* the orders in which a cycle may meet the three feeds
FixOrders ==
  { o \in [1..3 -> URLs] : \A a, b \in 1..3 : o[a] = o[b] => a = b }

\* the store of a relay that has just registered its feeds, and the store
\* of one that scanned the earlier documents twice
FixStores ==
  LET us == <<FA, FB, FC>>
  IN { EmptyDb(us),
       FirstScan(FirstScan(EmptyDb(us), us, FixOld), us, FixOld) }

InitFix ==
  /\ \E d \in FixStores, da \in FixDocsA, dbb \in FixDocsB :
       /\ db = d
       /\ remote = [u \in URLs |->
                      IF u = FA THEN da ELSE IF u = FB THEN dbb ELSE FixDocC]
  /\ AtRest

\* StartCycle with the feeds in any order, one cycle beyond MaxCycles; snap
\* keeps the store as the first cycle found it
StartOrdered ==
  /\ phase = "idle"
  /\ cycles < MaxCycles + 1
  /\ phase' = "scanning"
  /\ \E o \in FixOrders : queue' = o
  /\ cycles' = cycles + 1
  /\ snap' = IF cycles = 0 THEN db ELSE snap
  /\ UNCHANGED <<db, remote, edits, last, clean, mentionPub, cache, served,
                 rec, web, runs, bus, now, parse, postPub>>

NextFix ==
  \/ StartOrdered
  \/ SyncOne
  \/ FinishCycle

SpecFix == InitFix /\ [][NextFix]_vars

\* the stored Posts, Mentions and PollVotes
StoredSets(d) == <<d.posts, d.mentions, d.votes>>

\* the store after two complete cycles from d, in the orders o1 and o2
TwoCycles(d, docs, o1, o2) == FirstScan(FirstScan(d, o1, docs), o2, docs)

\* C37: with unchanged remote documents and successful fetches, the Posts,
\* Mentions and PollVotes stored at the end of the second cycle and of every
\* later one are those that two cycles in any two orders leave behind
C37_FixedPointAnyOrder ==
  (phase = "idle" /\ cycles >= 2) =>
    \A o1, o2 \in FixOrders :
      StoredSets(db) = StoredSets(TwoCycles(snap, remote, o1, o2))

\* three cycles are over, votes and mentions are stored, and in some order
\* one cycle alone would not have produced them
C37_Witness ==
  /\ phase = "idle"
  /\ cycles = 3
  /\ db.votes # {}
  /\ db.mentions # {}
  /\ \E o \in FixOrders :
       StoredSets(FirstScan(snap, o, remote)) # StoredSets(db)

----------------------------------------------------------------------------
(* The rows of other profiles across one iteration of the loop, under      *)
(* SpecFix: last.pre is the store the iteration found, db the store it     *)
(* left.                                                                   *)

\* the posts that u does not own, and the mentions and votes made in them
OthersPosts(d, u) == {p \in d.posts : p.profile # u}
OthersMentions(d, u) == {m \in d.mentions : m.post[1] # u}
OthersVotes(d, u) == {v \in d.votes : v.post[1] # u}

----------------------------------------------------------------------------
(* Specification SpecParse: one post of a document, written in any of a    *)
(* number of ways, goes through parse_org_social.  Text is a sequence of   *)
(* tokens: ":" , "nl" (newline), "sp" (space), and tokens that stand for   *)
(* runs of other characters.                                               *)

\* a property line ":NAME:" pad value tail newline; value neither starts
\* nor ends with a space
PropLines ==
  [name : {"MOOD", "POLL_OPTION", "ID"},
   pad : {<< >>, <<"sp">>},
   value : {<< >>, <<"x">>, <<"x", ":", "y">>},
   tail : {<< >>, <<"sp">>}]

PropBlocks ==
  {<<l>> : l \in PropLines}
    \cup {<<l, m>> : l \in PropLines, m \in PropLines}
    \cup {<<l, m, n>> : l \in {x \in PropLines : x.name = "MOOD"},
                        m \in {x \in PropLines : x.name = "POLL_OPTION"},
                        n \in {x \in PropLines : x.name = "ID"}}

\* what follows "** " on the marker line: nothing, or a timestamp
Heads == {<< >>, <<"t1">>}

RenderLine(l) == <<":", l.name, ":">> \o l.pad \o l.value \o l.tail \o <<"nl">>

RECURSIVE RenderBlock(_)
RenderBlock(ls) ==
  IF ls = << >> THEN << >> ELSE RenderLine(Head(ls)) \o RenderBlock(Tail(ls))

InitParse ==
  /\ db = EmptyDb(<< >>)
  /\ remote = [u \in URLs |-> EmptyDoc]
  /\ phase = "idle"
  /\ queue = << >>
  /\ cycles = 0
  /\ edits = 0
  /\ last = NoStep
  /\ clean = [u \in URLs |-> FALSE]
  /\ mentionPub = EmptyBag
  /\ cache = NoCache
  /\ served = {}
  /\ snap = EmptyDb(<< >>)
  /\ rec = RecIdle
  /\ web = WebIdle
  /\ runs = NoRuns
  /\ bus = NoBus
  /\ now = 1
  /\ postPub = EmptyBag
  /\ \E h \in Heads, b \in PropBlocks :
       parse = [Unparsed EXCEPT !.head = h, !.lines = b]

\* str.strip() and the character class [ \t]
IsSpace(c) == c \in {"sp", "nl"}
IsBlank(c) == c = "sp"

RECURSIVE StripLeft(_)
StripLeft(q) ==
  IF q # << >> /\ IsSpace(Head(q)) THEN StripLeft(Tail(q)) ELSE q

Strip(q) == Reverse(StripLeft(Reverse(StripLeft(q))))

\* str.lower() on the property names
Lower(q) ==
  [k \in 1..Len(q) |->
     CASE q[k] = "MOOD" -> "mood"
       [] q[k] = "POLL_OPTION" -> "poll_option"
       [] q[k] = "ID" -> "id"
       [] OTHER -> q[k]]

\* [^:]+ from position i: the position after the run
RECURSIVE NameEnd(_, _)
NameEnd(t, i) == IF i > Len(t) \/ t[i] = ":" THEN i ELSE NameEnd(t, i + 1)

\* BlankEnd for \s* in the place of [ \t]*
RECURSIVE BlankEndMut(_, _)
BlankEndMut(t, i) ==
  IF i <= Len(t) /\ IsSpace(t[i]) THEN BlankEndMut(t, i + 1) ELSE i

\* [ \t]* from position i: the position after the run
RECURSIVE BlankEnd(_, _)
BlankEnd(t, i) ==
  IF i <= Len(t) /\ IsBlank(t[i]) THEN BlankEnd(t, i + 1) ELSE i

\* [^\n]* from position i: the position after the run
RECURSIVE LineEnd(_, _)
LineEnd(t, i) == IF i <= Len(t) /\ t[i] # "nl" THEN LineEnd(t, i + 1) ELSE i

\* re.finditer(r":([^:]+):[ \t]*([^\n]*)", t), searching from position i:
\* the groups of the matches, in order
RECURSIVE PropMatches(_, _)
PropMatches(t, i) ==
  IF i > Len(t) THEN << >>
  ELSE IF t[i] # ":" THEN PropMatches(t, i + 1)
  ELSE LET j == NameEnd(t, i + 1)
       IN IF j = i + 1 \/ j > Len(t) THEN PropMatches(t, i + 1)
          ELSE LET b == BlankEnd(t, j + 1)
                   e == LineEnd(t, b)
               IN <<[name |-> SubSeq(t, i + 1, j - 1),
                     value |-> SubSeq(t, b, e - 1)]>> \o PropMatches(t, e)

\* the loop over prop_matches: only non-empty values are stored
RECURSIVE CollectProps(_, _)
CollectProps(ms, acc) ==
  IF ms = << >> THEN acc
  ELSE LET n == Strip(Lower(Head(ms).name))
           v == Strip(Head(ms).value)
       IN CollectProps(Tail(ms), IF v # << >> THEN (n :> v) @@ acc ELSE acc)

\* the body of "for post_match in post_matches" for one post: the marker
\* line is matched by [^\n]* and not looked at
ParsePost(head, ls) ==
  LET props == CollectProps(PropMatches(RenderBlock(ls), 1), << >>)
      id == IF <<"id">> \in DOMAIN props THEN props[<<"id">>] ELSE << >>
  IN [props |-> props,
      out |-> IF id # << >> THEN <<[id |-> id, properties |-> props]>>
              ELSE << >>]

ParseOrgSocialPost ==
  /\ ~parse.done
  /\ LET r == ParsePost(parse.head, parse.lines)
     IN parse' = [parse EXCEPT !.props = r.props, !.out = r.out,
                               !.done = TRUE]
  /\ UNCHANGED <<db, remote, phase, queue, cycles, edits, last, clean,
                 mentionPub, cache, served, snap, rec, web, runs, bus, now,
                 postPub>>

NextParse == ParseOrgSocialPost

SpecParse == InitParse /\ [][NextParse]_vars

\* the lines of the block that give the property n a value
Giving(ls, n) ==
  SelectSeq(ls, LAMBDA l : Lower(<<l.name>>) = n /\ l.value # << >>)

\* C28: a property is captured exactly when one of its lines has a value,
\* and then with the value of its last such line; no captured value holds
\* a newline
C28_EmptyPropertyNotCaptured ==
  parse.done =>
    /\ \A n \in {<<"mood">>, <<"poll_option">>, <<"id">>} :
         LET g == Giving(parse.lines, n)
         IN IF g = << >> THEN n \notin DOMAIN parse.props
            ELSE /\ n \in DOMAIN parse.props
                 /\ parse.props[n] = g[Len(g)].value
    /\ \A n \in DOMAIN parse.props :
         \A k \in 1..Len(parse.props[n]) : parse.props[n][k] # "nl"

\* an empty :MOOD: line followed by :POLL_OPTION: x has been parsed
C28_Witness ==
  /\ parse.done
  /\ Len(parse.lines) = 2
  /\ parse.lines[1].name = "MOOD"
  /\ parse.lines[1].value = << >>
  /\ parse.lines[1].pad = << >>
  /\ parse.lines[1].tail = << >>
  /\ parse.lines[2].name = "POLL_OPTION"
  /\ parse.lines[2].value = <<"x">>
  /\ <<"mood">> \notin DOMAIN parse.props
  /\ parse.props[<<"poll_option">>] = <<"x">>

\* C29: a post with a timestamp on its marker line is parsed with that
\* timestamp as its id, whether or not it has an ID property
C29_MarkerLineIdWins ==
  (parse.done /\ parse.head # << >>) =>
    /\ Len(parse.out) = 1
    /\ parse.out[1].id = parse.head

----------------------------------------------------------------------------
(* Specification SpecChain: two feeds whose posts reply to one another in  *)
(* any way, scanned and then asked for parent chains.                      *)

\* max_depth, which is 100 in the code: more parents than a chain through
\* the four posts has without naming one of them twice
MaxDepth == 6

\* what a post of the two feeds may name as its parent
ChainRefs ==
  {NoRef, Ref(FA, "t1"), Ref(FA, "t2"), Ref(FB, "t1"), Ref(FB, "t2")}

ChainDocs ==
  { DocOf(<<WithId("t1", ReplyBody(r1)), WithId("t2", ReplyBody(r2))>>) :
      r1 \in ChainRefs, r2 \in ChainRefs }

InitChain ==
  /\ db = EmptyDb(<<FA, FB>>)
  /\ \E da \in ChainDocs, dbb \in ChainDocs :
       remote = [u \in URLs |-> IF u = FA THEN da
                                ELSE IF u = FB THEN dbb ELSE EmptyDoc]
  /\ AtRest

\* the "while current_reply_to and depth < max_depth" loop: the parents in
\* the order in which they are appended, nearest first
RECURSIVE ClimbFrom(_, _, _)
ClimbFrom(d, cur, depth) ==
  IF cur = NoRef \/ depth >= MaxDepth THEN << >>
  ELSE IF Len(cur) # 2 THEN <<cur>>
  ELSE IF ~HasProfile(d, cur[1]) THEN <<cur>>
  ELSE IF ~HasPost(d, cur[1], cur[2]) THEN <<cur>>
  ELSE <<cur>> \o ClimbFrom(d, PostOf(d, cur[1], cur[2]).reply_to, depth + 1)

\* GetParentChain without chain.reverse()
GetParentChainMut(d, post) == ClimbFrom(d, post.reply_to, 0)

\* get_parent_chain(post)
GetParentChain(d, post) == Reverse(ClimbFrom(d, post.reply_to, 0))

\* InteractionsView.get for a stored post, as far as meta.parentChain goes
ChainView ==
  /\ \E p \in db.posts :
       /\ served' = {<<PostKey(p), GetParentChain(db, p)>>}
       /\ snap' = db
  /\ <<served, snap>>' # <<served, snap>>
  /\ UNCHANGED <<db, remote, phase, queue, cycles, edits, last, clean,
                 mentionPub, cache, rec, web, runs, bus, now, parse, postPub>>

NextChain ==
  \/ StartCycle
  \/ SyncOne
  \/ FinishCycle
  \/ ChainView

SpecChain == InitChain /\ [][NextChain]_vars

\* RepliesView.get for a stored post on a cache miss
TreeView ==
  /\ \E p \in db.posts :
       /\ served' = {<<PostKey(p), RepliesView(db, PostKey(p))>>}
       /\ snap' = db
  /\ <<served, snap>>' # <<served, snap>>
  /\ UNCHANGED <<db, remote, phase, queue, cycles, edits, last, clean,
                 mentionPub, cache, rec, web, runs, bus, now, parse, postPub>>

NextTree ==
  \/ StartCycle
  \/ SyncOne
  \/ FinishCycle
  \/ TreeView

\* the stores of SpecChain, asked for reply trees
SpecTree == InitChain /\ [][NextTree]_vars

\* C33: every request for the reply tree of a stored post is answered: the
\* loops that gather the replies and build the tree come to an end
C33_TreeTerminates ==
  \A s \in served : s[2] # NoAnswer

\* the stored parent of the post k, NoRef when k is not stored
ParentOf(d, k) ==
  IF HasPost(d, k[1], k[2]) THEN PostOf(d, k[1], k[2]).reply_to ELSE NoRef

\* C24: for c replying to b, b to a and a to a root, the chain of c is
\* <<root, a, b>>; for a direct reply to a root it is <<root>>
C24_ChainRootFirst ==
  \A e \in served :
    LET c == e[1]
        b == ParentOf(snap, c)
        a == ParentOf(snap, b)
        r == ParentOf(snap, a)
    IN /\ (b # NoRef /\ ParentOf(snap, b) = NoRef) => e[2] = <<b>>
       /\ (b # NoRef /\ a # NoRef /\ r # NoRef /\ ParentOf(snap, r) = NoRef)
            => e[2] = <<r, a, b>>

\* the chain of a post three replies below a stored root has been asked for
C24_Witness ==
  \E e \in served :
    LET b == ParentOf(snap, e[1])
        a == ParentOf(snap, b)
        r == ParentOf(snap, a)
    IN /\ b # NoRef /\ a # NoRef /\ r # NoRef
       /\ HasPost(snap, r[1], r[2])
       /\ ParentOf(snap, r) = NoRef
       /\ Len(e[2]) = 3

\* C25: the chain of a post never names the post itself
C25_ChainExcludesSelf ==
  \A e \in served : \A n \in 1..Len(e[2]) : e[2][n] # e[1]

----------------------------------------------------------------------------
(* Properties of the reply tree *)

\* post ids are timestamps: t1 is earlier than t2
IdRank(i) == IF i = "t1" THEN 1 ELSE 2

\* the siblings of every level of a tree, newest post id first
RECURSIVE NewestFirst(_)
NewestFirst(nodes) ==
  /\ \A k \in 1..(Len(nodes) - 1) :
       IdRank(nodes[k].post[2]) >= IdRank(nodes[k + 1].post[2])
  /\ \A k \in 1..Len(nodes) : NewestFirst(nodes[k].children)

\* the posts that are nodes of a tree
RECURSIVE NodesOf(_)
NodesOf(nodes) ==
  UNION {{nodes[k].post} \cup NodesOf(nodes[k].children) : k \in 1..Len(nodes)}

\* a reply that carries a mood and is not a poll vote
IsReaction(d, k) ==
  LET p == PostOf(d, k[1], k[2])
  IN /\ p.mood # ""
     /\ p.reply_to # NoRef
     /\ ~\E v \in d.votes : v.post = k

\* C22: in every reply tree the view returns, the siblings of every level
\* are listed by post id, newest first
C22_SiblingsNewestFirst ==
  \A key \in ReadKeys : NewestFirst(RepliesView(db, key).data)

\* C23: no reply tree the view returns has a reaction among its nodes
C23_NoReactionInChildren ==
  \A key \in ReadKeys :
    \A k \in NodesOf(RepliesView(db, key).data) : ~IsReaction(db, k)

----------------------------------------------------------------------------
(* Specification SpecSeen: scan cycles whose notifications Redis hands to  *)
(* the SSE streams, while clients read the replies of a post.  The remote  *)
(* documents do not change.                                                *)

\* fb publishes one post; fa publishes posts that may reply to it
InitSeen ==
  /\ \E o \in {<<FA, FB>>, <<FB, FA>>} : db = EmptyDb(o)
  /\ \E da \in ReadDocsA :
       remote = [u \in URLs |->
                   IF u = FA THEN da
                   ELSE IF u = FB THEN DocOf(<<WithId("t1", PlainBody)>>)
                   ELSE EmptyDoc]
  /\ AtRest

\* r.publish(channel, ...) of the events of one iteration that reached
\* Redis, in the order of the calls; the log keeps each event
RECURSIVE Announce(_, _)
Announce(b, evs) ==
  IF evs = << >> THEN b
  ELSE LET ev == Head(evs)
           n == Len(b.log) + 1
           to == Subscribed(b, ev.target)
       IN Announce([b EXCEPT
                      !.inbox = [c \in Clients |->
                                   IF c \in to
                                   THEN Append(@[c], [id |-> n, ev |-> ev])
                                   ELSE @[c]],
                      !.log = Append(@, [channel |-> ev.target,
                                         sent |-> TRUE, at |-> to,
                                         ev |-> ev])],
                    Tail(evs))

\* SyncOne with its publishes arriving at the subscribed streams
SyncAnnounce ==
  /\ phase = "scanning"
  /\ queue # << >>
  /\ \E up \in BOOLEAN :
       LET u == Head(queue)
           st == SyncFeed(db, u, remote[u], up)
       IN /\ db' = st.db
          /\ last' = StepRecord(u, up, remote[u], db, clean[u], st)
          /\ clean' = [v \in URLs |->
                         IF v = u THEN ~st.aborted
                         ELSE clean[v] /\ st.db = db]
          /\ mentionPub' = mentionPub (+) MentionKeys(st.calls)
          /\ postPub' = postPub (+) PostEventKeys(st.calls)
          /\ bus' = Announce(bus, st.sent)
  /\ queue' = Tail(queue)
  /\ UNCHANGED <<remote, phase, cycles, edits, cache, served, snap, rec,
                 web, runs, now, parse>>

\* a client opens the stream of fb
SubscribeTarget ==
  /\ \E c \in Clients :
       /\ bus.conn[c] = ""
       /\ bus' = [bus EXCEPT !.conn[c] = FB, !.inbox[c] = << >>]
  /\ UNCHANGED <<db, remote, phase, queue, cycles, edits, last, clean,
                 mentionPub, cache, served, snap, rec, web, runs, now,
                 parse, postPub>>

NextSeen ==
  \/ StartCycle
  \/ SyncAnnounce
  \/ FinishCycle
  \/ Read
  \/ Expire
  \/ SubscribeTarget
  \/ SseNotify

SpecSeen == InitSeen /\ [][NextSeen]_vars

\* what RepliesView.get answers to a request made now
ReadNow(key) == IF cache[key] # NoBody THEN cache[key] ELSE RepliesView(db, key)

\* the reply events that the stream of c has yielded
Delivered(c) ==
  {bus.log[bus.got[c][i]].ev : i \in 1..Len(bus.got[c])}

\* C39: once a stream has yielded the event of a new reply, a request for
\* the replies of the post replied to is answered with a tree that holds
\* the new post
C39_ReadReflectsAnnounced ==
  \A c \in Clients : \A ev \in Delivered(c) :
    (ev.type = "reply" /\ ev.parent \in ReadKeys) =>
      /\ ReadNow(ev.parent).status = 200
      /\ ev.post \in NodesOf(ReadNow(ev.parent).data)

====
